---- MODULE Spec2Model ----
(***************************************************************************)
(* FOSSMate backend: webhook ingestion, the idempotency ledger             *)
(* (DeliveryLog), the in-memory task queue and the delivery processor.     *)
(*                                                                         *)
(* Concurrency is asyncio's: one event loop, coroutines interleave only at *)
(* an await.  Every action below is the code between two awaits of one     *)
(* coroutine (a request handler or a queue worker), and the store is the   *)
(* committed content of the database tables.                               *)
(***************************************************************************)
EXTENDS Integers, Sequences, FiniteSets, Bags, TLC

(***************************************************************************)
(* Bounds of the model.                                                    *)
(***************************************************************************)
\* webhook calls (POST /webhooks/github, /webhooks/gitlab) in one behaviour
MaxRequests == 2
\* replay calls (POST /admin/installations/{id}/replay/{event_id})
MaxReplays == 1
\* replay calls in the ledger specification, where no worker runs
MaxLedgerReplays == 2
\* distinct values of datetime.now() the replay calls can observe
MaxClock == 2
\* jobs enqueued a second time, in the redelivery specification
MaxRedeliveries == 1
\* jobs enqueued in the queue specification
MaxJobs == 3
\* start() and stop() calls in the queue specification
MaxCalls == 3
\* providers of a FallbackLLMProvider
MaxProviders == 2
\* tokens a provider yields before its stream completes or fails
MaxTokens == 2
\* files the code host lists for a pull request, in the review specification
MaxFiles == 2
\* length of the strings the key specification draws
MaxKeyLen == 1
\* queue_workers, the N of InMemoryTaskQueue(workers=N)
queue_workers == 2

None == "None"

(***************************************************************************)
(* Inbound deliveries: what a platform sends to the webhook endpoint.      *)
(* A payload is a map, written flat (pr_number is pull_request.number,     *)
(* iid is object_attributes.iid, ...); an absent key is a field the        *)
(* platform left out.                                                      *)
(***************************************************************************)
Get(payload, field, default) ==
    IF field \in DOMAIN payload THEN payload[field] ELSE default

PullRequestOpened ==
    [platform |-> "github", delivery_id |-> "d1", event_type |-> "pull_request",
     payload |-> [action |-> "opened", installation_id |-> "i1",
                  repository_full_name |-> "o/r", pr_number |-> "n1",
                  head_sha |-> "sha1", sender_login |-> "dev"]]

PullRequestSynchronize ==
    [platform |-> "github", delivery_id |-> "d1", event_type |-> "pull_request",
     payload |-> [action |-> "synchronize", installation_id |-> "i1",
                  repository_full_name |-> "o/r", pr_number |-> "n1",
                  sender_login |-> "dev"]]

PullRequestNoMetadata ==
    [platform |-> "github", delivery_id |-> "d2", event_type |-> "pull_request",
     payload |-> [action |-> "opened", installation_id |-> "i1"]]

GithubPing ==
    [platform |-> "github", delivery_id |-> "d2", event_type |-> "ping",
     payload |-> [zen |-> "z"]]

GitlabMergeRequest ==
    [platform |-> "gitlab", delivery_id |-> "d1", event_type |-> "Merge Request Hook",
     payload |-> [action |-> "open", path_with_namespace |-> "o/r",
                  iid |-> "n1", username |-> "dev"]]

IssueOpened ==
    [platform |-> "github", delivery_id |-> "d2", event_type |-> "issues",
     payload |-> [action |-> "opened", installation_id |-> "i1",
                  repository_full_name |-> "o/r", issue_number |-> "n2",
                  sender_login |-> "dev"]]

CommentCreated ==
    [platform |-> "github", delivery_id |-> "d2", event_type |-> "issue_comment",
     payload |-> [action |-> "created", installation_id |-> "i1",
                  repository_full_name |-> "o/r", issue_number |-> "n2",
                  sender_login |-> "dev", sender_type |-> "User",
                  comment_body |-> "can I work on this?"]]

\* A created comment on issue n2 with the given sender and body.
Comment(sender_login, sender_type, comment_body) ==
    [CommentCreated EXCEPT !.payload.sender_login = sender_login,
                           !.payload.sender_type = sender_type,
                           !.payload.comment_body = comment_body]

\* Comments of a contributor, of bots, without a body, and comments that
\* carry a marker: a reply of the assistant as upsert_pull_request_comment
\* formats it, and a marker in other case inside a text.
CommentDeliveries ==
    {CommentCreated,
     Comment("dev", "User", "@fossmate help"),
     Comment("dev", "User", "hello"),
     Comment("dev", "Bot", "hello"),
     Comment("dev", " BOT ", "@fossmate help"),
     Comment("ci[bot]", "User", "can I work on this?"),
     Comment("dev", "User", " "),
     [CommentCreated EXCEPT !.payload = [action |-> "created", installation_id |-> "i1",
                                         repository_full_name |-> "o/r",
                                         issue_number |-> "n2"]],
     Comment("dev", "User", "<!-- fossmate:onboarding -->\n\nThanks"),
     Comment("dev", "User", "see <!-- Fossmate:x")}

Deliveries ==
    {PullRequestOpened, PullRequestSynchronize, PullRequestNoMetadata,
     GithubPing, GitlabMergeRequest, IssueOpened, CommentCreated}

(***************************************************************************)
(* Texts.  A text of a payload is a string; the functions of str are       *)
(* computed on its characters, which Spelling lists.                       *)
(***************************************************************************)
\* str.lower, for the capital letters that decide a comparison of the model
lower(s) ==
    LET LowerCase == [c \in {"B", "F", "H", "I", "M", "N", "O", "P", "R", "T"} |->
                         CASE c = "B" -> "b" [] c = "F" -> "f" [] c = "H" -> "h"
                           [] c = "I" -> "i" [] c = "M" -> "m" [] c = "N" -> "n"
                           [] c = "O" -> "o" [] c = "P" -> "p" [] c = "R" -> "r"
                           [] c = "T" -> "t"]
    IN [i \in DOMAIN s |->
           IF s[i] \in DOMAIN LowerCase THEN LowerCase[s[i]] ELSE s[i]]

\* str.strip, for the one kind of whitespace the texts have
RECURSIVE strip(_)
strip(s) ==
    IF s = <<>> THEN s
    ELSE IF s[1] = " " THEN strip(Tail(s))
    ELSE IF s[Len(s)] = " " THEN strip(SubSeq(s, 1, Len(s) - 1))
    ELSE s

\* word in text
Contains(s, w) ==
    \E i \in 1..(Len(s) - Len(w) + 1) : SubSeq(s, i, i + Len(w) - 1) = w

\* str.replace(old, new) on the characters of s from position i on
RECURSIVE replace_from(_, _, _, _)
replace_from(s, i, old, new) ==
    IF Len(s) - i + 1 < Len(old) THEN SubSeq(s, i, Len(s))
    ELSE IF SubSeq(s, i, i + Len(old) - 1) = old
    THEN new \o replace_from(s, i + Len(old), old, new)
    ELSE <<s[i]>> \o replace_from(s, i + 1, old, new)

\* str.replace(old, new): every occurrence of old, from the left
replace(s, old, new) == replace_from(s, 1, old, new)

Texts ==
    {"", "dev",
     "ci[bot]",
     "User",
     "Bot",
     "bot",
     " BOT ",
     "hello",
     " ",
     "can I work on this?",
     "@fossmate help",
     "<!-- fossmate:onboarding -->\n\nThanks",
     "see <!-- Fossmate:x",
     "Merge Request Hook",
     "merge_request",
     "merge_request_hook",
     "Issue Hook",
     "issue_hook",
     "Note Hook",
     "Push Hook",
     "unknown",
     "merge request",
     "mergerequest",
     "mergerequesthook",
     "issue",
     "issuehook",
     "note",
     "push"}

Spelling(text) ==
    CASE text = "" -> <<>>
      [] text = "dev" ->
           <<"d", "e", "v">>
      [] text = "ci[bot]" ->
           <<"c", "i", "[", "b", "o", "t", "]">>
      [] text = "User" ->
           <<"U", "s", "e", "r">>
      [] text = "Bot" ->
           <<"B", "o", "t">>
      [] text = "bot" ->
           <<"b", "o", "t">>
      [] text = " BOT " ->
           <<" ", "B", "O", "T", " ">>
      [] text = "hello" ->
           <<"h", "e", "l", "l", "o">>
      [] text = " " ->
           <<" ">>
      [] text = "can I work on this?" ->
           <<"c", "a", "n", " ", "I", " ", "w", "o", "r", "k", " ", "o", "n", " ", "t", "h", "i", "s", "?">>
      [] text = "@fossmate help" ->
           <<"@", "f", "o", "s", "s", "m", "a", "t", "e", " ", "h", "e", "l", "p">>
      [] text = "<!-- fossmate:onboarding -->\n\nThanks" ->
           <<"<", "!", "-", "-", " ", "f", "o", "s", "s", "m", "a", "t", "e", ":", "o", "n", "b", "o", "a", "r", "d", "i", "n", "g", " ", "-", "-", ">", "\n", "\n", "T", "h", "a", "n", "k", "s">>
      [] text = "see <!-- Fossmate:x" ->
           <<"s", "e", "e", " ", "<", "!", "-", "-", " ", "F", "o", "s", "s", "m", "a", "t", "e", ":", "x">>
      [] text = "Merge Request Hook" ->
           <<"M", "e", "r", "g", "e", " ", "R", "e", "q", "u", "e", "s", "t", " ", "H", "o", "o", "k">>
      [] text = "merge_request" ->
           <<"m", "e", "r", "g", "e", "_", "r", "e", "q", "u", "e", "s", "t">>
      [] text = "merge_request_hook" ->
           <<"m", "e", "r", "g", "e", "_", "r", "e", "q", "u", "e", "s", "t", "_", "h", "o", "o", "k">>
      [] text = "Issue Hook" ->
           <<"I", "s", "s", "u", "e", " ", "H", "o", "o", "k">>
      [] text = "issue_hook" ->
           <<"i", "s", "s", "u", "e", "_", "h", "o", "o", "k">>
      [] text = "Note Hook" ->
           <<"N", "o", "t", "e", " ", "H", "o", "o", "k">>
      [] text = "Push Hook" ->
           <<"P", "u", "s", "h", " ", "H", "o", "o", "k">>
      [] text = "unknown" ->
           <<"u", "n", "k", "n", "o", "w", "n">>
      [] text = "merge request" ->
           <<"m", "e", "r", "g", "e", " ", "r", "e", "q", "u", "e", "s", "t">>
      [] text = "mergerequest" ->
           <<"m", "e", "r", "g", "e", "r", "e", "q", "u", "e", "s", "t">>
      [] text = "mergerequesthook" ->
           <<"m", "e", "r", "g", "e", "r", "e", "q", "u", "e", "s", "t", "h", "o", "o", "k">>
      [] text = "issue" ->
           <<"i", "s", "s", "u", "e">>
      [] text = "issuehook" ->
           <<"i", "s", "s", "u", "e", "h", "o", "o", "k">>
      [] text = "note" ->
           <<"n", "o", "t", "e">>
      [] text = "push" ->
           <<"p", "u", "s", "h">>

\* the text of the given characters
Text(chars) == CHOOSE text \in Texts : Spelling(text) = chars

(***************************************************************************)
(* Event normalizer.                                                       *)
(***************************************************************************)
\* occurred_at: _now_utc() unless the payload carries a text that
\* datetime.fromisoformat reads; "timestamp" is the first truthy one of the
\* candidate fields.  A value "int:..." stands for a number.
occurred_at_of(payload) ==
    LET raw == Get(payload, "timestamp", None)
        Parsed == [t \in {"2024-01-01T00:00:00Z"} |-> "2024-01-01T00:00:00+00:00"]
    IN IF raw \in DOMAIN Parsed THEN Parsed[raw] ELSE "now"

normalize_github_event(event_type, delivery_id, payload) ==
    [platform |-> "github",
     delivery_id |-> delivery_id,
     event_type |-> event_type,
     action |-> Get(payload, "action", "unknown"),
     installation_id |-> Get(payload, "installation_id", None),
     repository_id |-> Get(payload, "repository_id", None),
     repository_owner |-> Get(payload, "repository_owner", None),
     repository_name |-> Get(payload, "repository_name", None),
     repository_full_name |-> Get(payload, "repository_full_name", None),
     pr_number |-> Get(payload, "pr_number", None),
     pr_title |-> Get(payload, "pr_title", None),
     issue_number |-> Get(payload, "issue_number", None),
     issue_title |-> Get(payload, "issue_title", None),
     sender_login |-> Get(payload, "sender_login", None),
     head_sha |-> Get(payload, "head_sha", None),
     occurred_at |-> occurred_at_of(payload),
     payload |-> payload]

\* the X-Gitlab-Event headers: the names GitLab sends, and the names of the
\* same events spelled with underscores
GitlabEventTypes ==
    {"Merge Request Hook", "merge_request", "merge_request_hook",
     "Issue Hook", "issue_hook", "Note Hook", "Push Hook", "unknown"}

\* event_type.lower().replace(" hook", "").replace("_", "")
gitlab_event_type(event_type) ==
    Text(replace(replace(lower(Spelling(event_type)),
                         <<" ", "h", "o", "o", "k">>, <<>>),
                 <<"_">>, <<>>))

\* normalized_event_type for each header, computed once for all calls
normalized_event_types ==
    [event_type \in GitlabEventTypes |-> gitlab_event_type(event_type)]

normalize_gitlab_event(event_type, delivery_id, payload) ==
    LET normalized_event_type == normalized_event_types[event_type]
        action == IF Get(payload, "action", None) # None THEN payload.action
                  ELSE IF Get(payload, "state", None) # None THEN payload.state
                  ELSE "unknown"
        pr_number == IF normalized_event_type \in {"mergerequest", "merge request"}
                     THEN Get(payload, "iid", None) ELSE None
        issue_number == IF normalized_event_type \in {"issue", "note"}
                        THEN Get(payload, "iid", None) ELSE None
    IN [platform |-> "gitlab",
        delivery_id |-> delivery_id,
        event_type |-> normalized_event_type,
        action |-> action,
        installation_id |-> None,
        repository_id |-> Get(payload, "project_id", None),
        repository_owner |-> Get(payload, "namespace", None),
        repository_name |-> Get(payload, "name", None),
        repository_full_name |-> Get(payload, "path_with_namespace", None),
        pr_number |-> pr_number,
        pr_title |-> IF pr_number \notin {None, ""} THEN Get(payload, "title", None)
                     ELSE None,
        issue_number |-> issue_number,
        issue_title |-> IF issue_number \notin {None, ""} THEN Get(payload, "title", None)
                        ELSE None,
        sender_login |-> Get(payload, "username", None),
        head_sha |-> Get(payload, "last_commit_id", None),
        occurred_at |-> occurred_at_of(payload),
        payload |-> payload]

normalize(d) ==
    IF d.platform = "github"
    THEN normalize_github_event(d.event_type, d.delivery_id, d.payload)
    ELSE normalize_gitlab_event(d.event_type, d.delivery_id, d.payload)

(***************************************************************************)
(* Idempotency key.                                                        *)
(***************************************************************************)
\* variant: a key that leaves the action out
idempotency_key_without_action(platform, delivery_id, event_type, action) ==
    platform \o ":" \o delivery_id \o ":" \o event_type

_idempotency_key(platform, delivery_id, event_type, action) ==
    platform \o ":" \o delivery_id \o ":" \o event_type \o ":" \o action

key_of(d) ==
    _idempotency_key(d.platform, d.delivery_id, d.event_type, normalize(d).action)


(***************************************************************************)
(* State.                                                                  *)
(*   webhook_events, delivery_logs, installation_settings: the committed   *)
(*     rows of the tables, in id order (id = index).                       *)
(*   review_runs: the committed rows of review_runs (a bag: a run is       *)
(*     reached through its delivery_log_id, never through its own id).     *)
(*   queue, running, workers: InMemoryTaskQueue, one entry per worker task.*)
(*   requests: the webhook calls in flight (a bag: calls have no identity).*)
(*   replays: the replay calls in flight, each the id of its new row.      *)
(*   responses: what callers have been answered so far.                    *)
(*   effects: per ledger row, the calls made on its behalf: enqueue calls, *)
(*     handler calls that returned at the done check,                      *)
(*     label, comment and check-run calls the code host accepted, and      *)
(*     those that failed and were caught and logged.                       *)
(*   default_feature_flags: Settings.default_feature_flags of the process. *)
(*   deliveries: the deliveries the platforms send in this behaviour.      *)
(*   n_requests, n_replays, n_redeliveries: calls made so far.             *)
(*   key_in, key_out: inputs and results of the key specification and of   *)
(*     the normalizer specification.                                       *)
(*   _workers, _queue, _handlers, _worker_tasks, _running: the fields of   *)
(*     an InMemoryTaskQueue with handlers of any kind, in the queue        *)
(*     specification; stopping: a stop() call is awaiting the tasks;       *)
(*     journal: what the worker loops did, in order; n_jobs, n_calls:      *)
(*     jobs enqueued and start/stop calls made so far.                     *)
(*   _providers: the providers of a FallbackLLMProvider, each with what    *)
(*     its calls do; llm: the call of the fallback provider in progress,   *)
(*     in the provider specification.                                      *)
(*   review: the build_pr_review call of the review service in progress,  *)
(*     in the review specification.                                        *)
(***************************************************************************)
VARIABLES webhook_events, delivery_logs, installation_settings, review_runs,
          queue, running, workers, requests, replays, responses, effects,
          default_feature_flags, deliveries, n_requests, n_replays,
          n_redeliveries, key_in, key_out,
          _workers, _queue, _handlers, _worker_tasks, _running, stopping,
          journal, n_jobs, n_calls, _providers, llm, review,
          review_findings, score_cards, run_results, review_inputs

vars == <<webhook_events, delivery_logs, installation_settings, review_runs,
          queue, running, workers, requests, replays, responses, effects,
          default_feature_flags, deliveries, n_requests, n_replays,
          n_redeliveries, key_in, key_out,
          _workers, _queue, _handlers, _worker_tasks, _running, stopping,
          journal, n_jobs, n_calls, _providers, llm, review,
          review_findings, score_cards, run_results, review_inputs>>

config == <<default_feature_flags, deliveries, review_inputs>>
counters == <<n_requests, n_replays, n_redeliveries>>
keyvars == <<key_in, key_out>>
tqvars == <<_workers, _queue, _handlers, _worker_tasks, _running, stopping,
            journal, n_jobs, n_calls>>
llmvars == <<_providers, llm>>
\* the rows a review leaves beside its run: review_findings, score_cards and
\* the result_json column of the run
artifacts == <<review_findings, score_cards, run_results>>
reviewvars == <<review, artifacts>>
other == <<config, keyvars, tqvars, llmvars, reviewvars>>

Workers == 1..queue_workers

IdleWorker ==
    [pc |-> "idle", delivery_log_id |-> 0, route |-> None,
     seen_status |-> None, seen_error |-> None, exc |-> None,
     feature_flags |-> [k \in {} |-> TRUE]]

NoEffects ==
    [enqueued |-> 0, skipped |-> 0, labels |-> 0, label_errors |-> 0,
     comments |-> 0, comment_errors |-> 0, check_runs |-> 0,
     check_run_errors |-> 0, file_list_errors |-> 0]

\* Settings.default_feature_flags: the flags the processor reads, those of
\* the dispatch and those of the sections of a review; each defaults to True
FlagNames ==
    {"commit_trigger", "comment_auto_reply", "comment_reply_all",
     "pr_summary", "file_summary", "review_suggestions", "scoring"}

\* the flags the dispatch of a delivery reads
FlagsReadBy(d) ==
    IF d.event_type = "pull_request" /\ Get(d.payload, "action", None) = "synchronize"
    THEN {"commit_trigger"}
    ELSE IF d.event_type \in {"issue_comment", "pull_request_review_comment"}
    THEN {"comment_auto_reply", "comment_reply_all"}
    ELSE {}

\* The process settings: a flag the dispatch of no delivery of the behaviour
\* reads is left on.  SectionSpec lifts the restriction for the flags of the
\* sections of a review.
FlagSettings(ds) ==
    {f \in [FlagNames -> BOOLEAN] :
        \A k \in FlagNames : ~f[k] => \E d \in ds : k \in FlagsReadBy(d)}

\* The deliveries of one behaviour: the pull request and one other.
Scenarios == {{PullRequestOpened, d} : d \in Deliveries}

\* InMemoryTaskQueue.__init__: self._workers = max(1, workers)
TaskQueueInit(configured) ==
    /\ _workers = (IF configured > 1 THEN configured ELSE 1)
    /\ _queue = <<>>
    /\ _handlers = {}
    /\ _worker_tasks = <<>>
    /\ _running = FALSE
    /\ stopping = FALSE
    /\ journal = <<>>
    /\ n_jobs = 0
    /\ n_calls = 0

\* What the calls of one provider do: generate and embed_text return or
\* raise; stream_generate yields tokens, then completes or raises.
ProviderBehaviours ==
    [generate : BOOLEAN, embed_text : BOOLEAN, tokens : 0..MaxTokens,
     completes : BOOLEAN]

HealthyProvider ==
    [generate |-> TRUE, embed_text |-> TRUE, tokens |-> 1, completes |-> TRUE]

NoCall ==
    [op |-> "none", i |-> 0, pos |-> 0, calls |-> <<>>, out |-> <<>>,
     status |-> "none", value |-> None, cause |-> None]

\* FallbackLLMProvider.__init__: an empty provider list is refused
LlmInit(providers) ==
    /\ Len(providers) >= 1
    /\ _providers = providers
    /\ llm = NoCall

\* no build_pr_review call has been made
NoReview ==
    [pc |-> "idle", event |-> None, files |-> <<>>, category |-> None,
     pr_summary |-> None, file_summaries |-> <<>>, calls |-> <<>>,
     reply |-> <<>>, result |-> None, exc |-> None]

\* _load_pr_files: no call for an event without installation; a failure of
\* list_pull_request_files is caught and the review goes on without files; a
\* listed file whose additions is not a number makes int() raise in
\* _summarize_files
ListingOutcomes(event) ==
    IF event.installation_id = None THEN {"skipped"}
    ELSE {"listed", "failed", "malformed"}

\* len(suggestions) of _generate_suggestions: the two fallback suggestions
\* or up to five parsed ones
SuggestionCounts == {2, 5}

\* What a review can meet in one behaviour: the outcome of the file listing
\* and the number of suggestions.
ReviewInputs ==
    [listing : {"skipped", "listed", "failed"}, suggestions : SuggestionCounts]
       \cup {[listing |-> "malformed", suggestions |-> 0]}

\* The reviews of the application as a whole: the listing answers, with
\* well-formed or malformed entries, and generation falls back to the two
\* fixed suggestions.  PassSpec lifts the restriction.
SettledInputs ==
    {i \in ReviewInputs :
        i.listing # "failed" /\ (i.listing = "listed" => i.suggestions = 2)}

ReviewInit == review = NoReview

\* settings: the process settings of the behaviours beyond FlagSettings
AppInitIn(scenarios, inputs, settings) ==
    /\ review_inputs = inputs
    /\ webhook_events = <<>>
    /\ delivery_logs = <<>>
    /\ review_runs = EmptyBag
    /\ review_findings = EmptyBag
    /\ score_cards = EmptyBag
    /\ run_results = EmptyBag
    /\ queue = <<>>
    /\ running = FALSE
    /\ workers = [w \in Workers |-> IdleWorker]
    /\ requests = EmptyBag
    /\ replays = EmptyBag
    /\ responses = {}
    /\ effects = <<>>
    /\ deliveries \in scenarios
    /\ default_feature_flags \in FlagSettings(deliveries) \cup settings
    /\ n_requests = 0
    /\ n_replays = 0
    /\ n_redeliveries = 0
    /\ key_in = <<>>
    /\ key_out = <<>>

AppInitOf(scenarios, inputs) ==
    /\ AppInitIn(scenarios, inputs, {})
    /\ installation_settings = <<>>

AppInitWith(inputs) == AppInitOf(Scenarios, inputs)

AppInit == AppInitWith(SettledInputs)

Init ==
    /\ AppInit
    /\ TaskQueueInit(queue_workers)
    /\ LlmInit(<<HealthyProvider>>)
    /\ ReviewInit

(***************************************************************************)
(* Store and queue helpers.                                                *)
(***************************************************************************)
\* select(DeliveryLog).where(DeliveryLog.idempotency_key == key)
LogsWithKey(key) ==
    {i \in 1..Len(delivery_logs) : delivery_logs[i].idempotency_key = key}

\* variant: a table without the unique constraint
UniqueNeverViolated(key) == FALSE

\* uq_delivery_idempotency_key: the insert of a second row with the key fails
UniqueViolation(key) == LogsWithKey(key) # {}

Put(bag, e) == bag (+) SetToBag({e})
Remove(bag, e) == bag (-) SetToBag({e})

Enqueued(id) == [effects EXCEPT ![id].enqueued = @ + 1]

\* InMemoryTaskQueue.enqueue
enqueue(name, delivery_log_id) ==
    queue' = Append(queue, [name |-> name, delivery_log_id |-> delivery_log_id])

Response(op, key, status, duplicate, log_id, prior) ==
    [op |-> op, key |-> key, status |-> status, duplicate |-> duplicate,
     log_id |-> log_id, prior |-> prior]

NewLog(platform, delivery_id, key, webhook_event_id, installation_id, normalized) ==
    [platform |-> platform,
     delivery_id |-> delivery_id,
     idempotency_key |-> key,
     webhook_event_id |-> webhook_event_id,
     installation_id |-> installation_id,
     status |-> "queued",
     normalized_event |-> normalized,
     error_message |-> None]

(***************************************************************************)
(* POST /webhooks/github and /webhooks/gitlab: _persist_and_enqueue.       *)
(* The application serves calls once its lifespan has started the queue.   *)
(* prior records whether a call with the same key had been answered when   *)
(* this call looked the key up.                                            *)
(***************************************************************************)
NewRequest(d, key, prior) ==
    [delivery |-> d, key |-> key, pc |-> "insert_event",
     webhook_event_id |-> 0, delivery_log_id |-> 0, prior |-> prior]

Answered(key) == \E r \in responses : r.op = "webhook" /\ r.key = key

\* variant: the handler without the lookup of an existing row
persist_and_enqueue_lookup_blind(d) ==
    /\ running
    /\ n_requests' = n_requests + 1
    /\ requests' = Put(requests, NewRequest(d, key_of(d), Answered(key_of(d))))
    /\ UNCHANGED <<webhook_events, delivery_logs, installation_settings,
                   review_runs, queue, running, workers, replays, responses,
                   effects, n_replays, n_redeliveries, other>>

\* variant: a duplicate call enqueues the existing row again
persist_and_enqueue_lookup_requeue(d) ==
    /\ running
    /\ n_requests' = n_requests + 1
    /\ LET key == key_of(d)
           existing == LogsWithKey(key)
       IN IF existing # {}
          THEN LET id == CHOOSE i \in existing : TRUE
               IN /\ responses' = responses \cup
                        {Response("webhook", key, "accepted", TRUE, 0, Answered(key))}
                  /\ enqueue("process_delivery_log", id)
                  /\ effects' = Enqueued(id)
                  /\ UNCHANGED requests
          ELSE /\ requests' = Put(requests, NewRequest(d, key, Answered(key)))
               /\ UNCHANGED <<responses, queue, effects>>
    /\ UNCHANGED <<webhook_events, delivery_logs, installation_settings,
                   review_runs, running, workers, replays, n_replays,
                   n_redeliveries, other>>

\* The handler up to the answer of the lookup by idempotency key: a row found
\* ends the call with duplicate=True.
persist_and_enqueue_lookup(d) ==
    /\ running
    /\ n_requests' = n_requests + 1
    /\ LET key == key_of(d)
       IN IF LogsWithKey(key) # {}
          THEN /\ responses' = responses \cup
                     {Response("webhook", key, "accepted", TRUE, 0, Answered(key))}
               /\ UNCHANGED requests
          ELSE /\ requests' = Put(requests, NewRequest(d, key, Answered(key)))
               /\ UNCHANGED responses
    /\ UNCHANGED <<webhook_events, delivery_logs, installation_settings,
                   review_runs, queue, running, workers, replays, effects,
                   n_replays, n_redeliveries, other>>

\* variant: the job is enqueued with the raw event, before the ledger row is
\* committed
persist_and_enqueue_insert_event_enqueueing(r) ==
    /\ r.pc = "insert_event"
    /\ webhook_events' = Append(webhook_events,
            [event_type |-> r.delivery.event_type, payload |-> r.delivery.payload])
    /\ enqueue("process_delivery_log", Len(delivery_logs) + 1)
    /\ requests' = Put(Remove(requests, r),
            [r EXCEPT !.pc = "insert_log",
                      !.webhook_event_id = Len(webhook_events) + 1])
    /\ UNCHANGED <<delivery_logs, installation_settings, review_runs,
                   running, workers, replays, responses, effects, counters, other>>

\* session.add(webhook_event); commit; refresh
persist_and_enqueue_insert_event(r) ==
    /\ r.pc = "insert_event"
    /\ webhook_events' = Append(webhook_events,
            [event_type |-> r.delivery.event_type, payload |-> r.delivery.payload])
    /\ requests' = Put(Remove(requests, r),
            [r EXCEPT !.pc = "insert_log",
                      !.webhook_event_id = Len(webhook_events) + 1])
    /\ UNCHANGED <<delivery_logs, installation_settings, review_runs, queue,
                   running, workers, replays, responses, effects, counters, other>>

\* session.add(delivery); commit: the unique constraint on idempotency_key
\* rejects the row when the key is already stored; the IntegrityError leaves
\* the handler and the caller is answered with an error.
persist_and_enqueue_insert_log(r) ==
    /\ r.pc = "insert_log"
    /\ IF UniqueViolation(r.key)
       THEN /\ requests' = Remove(requests, r)
            /\ responses' = responses \cup
                   {Response("webhook", r.key, "error", FALSE, 0, r.prior)}
            /\ UNCHANGED <<delivery_logs, effects>>
       ELSE LET normalized == normalize(r.delivery)
            IN /\ delivery_logs' = Append(delivery_logs,
                      NewLog(r.delivery.platform, r.delivery.delivery_id, r.key,
                             r.webhook_event_id, normalized.installation_id,
                             normalized))
               /\ effects' = Append(effects, NoEffects)
               /\ requests' = Put(Remove(requests, r),
                      [r EXCEPT !.pc = "enqueue",
                                !.delivery_log_id = Len(delivery_logs) + 1])
               /\ UNCHANGED responses
    /\ UNCHANGED <<webhook_events, installation_settings, review_runs, queue,
                   running, workers, replays, counters, other>>

\* variant: the handler answers without enqueueing the job
persist_and_enqueue_enqueue_forgotten(r) ==
    /\ r.pc = "enqueue"
    /\ requests' = Remove(requests, r)
    /\ responses' = responses \cup
           {Response("webhook", r.key, "accepted", FALSE, r.delivery_log_id, r.prior)}
    /\ UNCHANGED <<webhook_events, delivery_logs, installation_settings,
                   review_runs, queue, effects, running, workers, replays,
                   counters, other>>

\* refresh(delivery); queue.enqueue(...); return the accepted response
persist_and_enqueue_enqueue(r) ==
    /\ r.pc = "enqueue"
    /\ enqueue("process_delivery_log", r.delivery_log_id)
    /\ effects' = Enqueued(r.delivery_log_id)
    /\ requests' = Remove(requests, r)
    /\ responses' = responses \cup
           {Response("webhook", r.key, "accepted", FALSE, r.delivery_log_id, r.prior)}
    /\ UNCHANGED <<webhook_events, delivery_logs, installation_settings,
                   review_runs, running, workers, replays, counters, other>>

(***************************************************************************)
(* POST /admin/installations/{installation_id}/replay/{event_id}.          *)
(***************************************************************************)
\* sha256("replay:{installation_id}:{event_id}:{now}")[:48]: one key per seed
replay_key(installation_id, event_id, now) ==
    "replay:" \o installation_id \o ":" \o ToString(event_id) \o ":" \o ToString(now)

SourceLogs(installation_id, event_id) ==
    {i \in 1..Len(delivery_logs) :
        /\ delivery_logs[i].webhook_event_id = event_id
        /\ delivery_logs[i].installation_id = installation_id}

\* variant: a replay that resets the source row to queued and enqueues it
replay_webhook_event_requeue(installation_id, event_id, now) ==
    /\ running
    /\ n_replays' = n_replays + 1
    /\ LET source == SourceLogs(installation_id, event_id)
           key == replay_key(installation_id, event_id, now)
       IN IF source = {}
          THEN /\ responses' = responses \cup
                      {Response("replay", key, "not_found", FALSE, 0, FALSE)}
               /\ UNCHANGED <<delivery_logs, effects, queue>>
          ELSE LET id == CHOOSE i \in source : TRUE
               IN /\ delivery_logs' = [delivery_logs EXCEPT ![id].status = "queued"]
                  /\ enqueue("process_delivery_log", id)
                  /\ effects' = Enqueued(id)
                  /\ responses' = responses \cup
                         {Response("replay", key, "queued", FALSE, id, FALSE)}
    /\ UNCHANGED <<webhook_events, installation_settings, review_runs, running,
                   workers, requests, replays, n_requests, n_redeliveries, other>>

\* The select of the source row, then session.add(replay_log); commit.  No
\* source row is a 404; a key already stored is an IntegrityError.
replay_webhook_event_insert(installation_id, event_id, now) ==
    /\ running
    /\ n_replays' = n_replays + 1
    /\ LET source == SourceLogs(installation_id, event_id)
           key == replay_key(installation_id, event_id, now)
       IN IF source = {}
          THEN /\ responses' = responses \cup
                      {Response("replay", key, "not_found", FALSE, 0, FALSE)}
               /\ UNCHANGED <<delivery_logs, effects, replays>>
          ELSE IF UniqueViolation(key)
          THEN /\ responses' = responses \cup
                      {Response("replay", key, "error", FALSE, 0, FALSE)}
               /\ UNCHANGED <<delivery_logs, effects, replays>>
          ELSE LET source_log == delivery_logs[CHOOSE i \in source : TRUE]
               IN /\ delivery_logs' = Append(delivery_logs,
                         NewLog(source_log.platform,
                                "replay-" \o ToString(event_id), key,
                                source_log.webhook_event_id, installation_id,
                                source_log.normalized_event))
                  /\ effects' = Append(effects, NoEffects)
                  /\ replays' = Put(replays, Len(delivery_logs) + 1)
                  /\ UNCHANGED responses
    /\ UNCHANGED <<webhook_events, installation_settings, review_runs, queue,
                   running, workers, requests, n_requests, n_redeliveries, other>>

\* refresh(replay_log); queue.enqueue(...); return
replay_webhook_event_enqueue(id) ==
    /\ BagIn(id, replays)
    /\ enqueue("process_delivery_log", id)
    /\ effects' = Enqueued(id)
    /\ replays' = Remove(replays, id)
    /\ responses' = responses \cup
           {Response("replay", delivery_logs[id].idempotency_key, "queued", FALSE,
                     id, FALSE)}
    /\ UNCHANGED <<webhook_events, delivery_logs, installation_settings,
                   review_runs, running, workers, requests, counters, other>>

(***************************************************************************)
(* InMemoryTaskQueue.                                                      *)
(***************************************************************************)
\* queue.register_handler(...) calls of the application
Handlers == {"process_delivery_log"}

\* start(): a second call returns at once
start ==
    /\ ~running
    /\ running' = TRUE
    /\ UNCHANGED <<webhook_events, delivery_logs, installation_settings,
                   review_runs, queue, workers, requests, replays, responses,
                   effects, counters, other>>

Return(w) == workers' = [workers EXCEPT ![w] = IdleWorker]

Goto(w, pc) == workers' = [workers EXCEPT ![w].pc = pc]

\* an exception leaves _process and reaches the except clause of
\* process_delivery_log
Raise(w, message) ==
    workers' = [workers EXCEPT ![w].pc = "fail_load", ![w].exc = message]

\* Worker tasks are interchangeable (the index only appears in log lines):
\* the job goes to the waiting worker of lowest index.
NextGetter == CHOOSE w \in Workers :
    /\ workers[w].pc = "idle"
    /\ \A v \in Workers : workers[v].pc = "idle" => w <= v

\* _worker_loop: job = await queue.get(); a job without a handler is logged
\* and dropped, any other is handed to its handler.
worker_loop_get(w) ==
    /\ running
    /\ workers[w].pc = "idle"
    /\ w = NextGetter
    /\ queue # <<>>
    /\ queue' = Tail(queue)
    /\ IF Head(queue).name \in Handlers
       THEN workers' = [workers EXCEPT ![w].pc = "load",
                            ![w].delivery_log_id = Head(queue).delivery_log_id]
       ELSE UNCHANGED workers
    /\ UNCHANGED <<webhook_events, delivery_logs, installation_settings,
                   review_runs, running, requests, replays, responses, effects,
                   counters, other>>

(***************************************************************************)
(* Dispatch rules of the processor (pure).                                 *)
(***************************************************************************)
Truthy(v) == v # None /\ v # ""

\* ReviewService.is_assistant_mention: the comment names the assistant handle
is_assistant_mention(comment_text, assistant_handle) ==
    comment_text \in {"@" \o assistant_handle \o " help"}

\* ReviewService.is_onboarding_request: the content heuristic
is_onboarding_request(comment_text) ==
    comment_text \in {"can I work on this?"}

assistant_handle == "fossmate"

\* variant: the guards without the test of the login
comment_guarded_by_type(body, login, type) ==
    LET comment_text == strip(Spelling(body))
        sender_type == lower(strip(Spelling(type)))
        marker == <<"<", "!", "-", "-", " ", "f", "o", "s", "s", "m", "a", "t", "e", ":">>
    IN \/ comment_text = <<>>
       \/ sender_type = <<"b", "o", "t">>
       \/ Contains(lower(comment_text), marker)

\* the guards of _process_comment_reply: an empty body, a sender that is a
\* bot by type or by login, a body that carries a marker of the assistant
comment_guarded(body, login, type) ==
    LET comment_text == strip(Spelling(body))
        sender_login == strip(Spelling(login))
        sender_type == lower(strip(Spelling(type)))
        suffix == <<"[", "b", "o", "t", "]">>
        marker == <<"<", "!", "-", "-", " ", "f", "o", "s", "s", "m", "a", "t", "e", ":">>
    IN \/ comment_text = <<>>
       \/ sender_type = <<"b", "o", "t">>
       \/ /\ Len(sender_login) >= Len(suffix)
          /\ SubSeq(sender_login, Len(sender_login) - Len(suffix) + 1,
                    Len(sender_login)) = suffix
       \/ Contains(lower(comment_text), marker)

\* variant: the reply made without the test of should_reply
comment_route_unasked(event, feature_flags) ==
    LET body == Get(event.payload, "comment_body", "")
        comment_text == Text(strip(Spelling(body)))
        target_issue_number == IF Truthy(event.issue_number)
                               THEN event.issue_number ELSE event.pr_number
    IN IF comment_guarded(body, Get(event.payload, "sender_login", ""),
                          Get(event.payload, "sender_type", ""))
       THEN "none"
       ELSE IF ~(Truthy(event.installation_id) /\ Truthy(event.repository_full_name)
                 /\ Truthy(target_issue_number)) THEN "none"
       ELSE IF is_onboarding_request(comment_text) THEN "issue_onboarding"
       ELSE "comment_assistant"

\* _process_comment_reply up to the choice of the reply
comment_route(event, feature_flags) ==
    LET body == Get(event.payload, "comment_body", "")
        comment_text == Text(strip(Spelling(body)))
        should_reply == \/ feature_flags["comment_reply_all"]
                        \/ is_assistant_mention(comment_text, assistant_handle)
        target_issue_number == IF Truthy(event.issue_number)
                               THEN event.issue_number ELSE event.pr_number
    IN IF comment_guarded(body, Get(event.payload, "sender_login", ""),
                          Get(event.payload, "sender_type", ""))
       THEN "none"
       ELSE IF ~should_reply THEN "none"
       ELSE IF ~(Truthy(event.installation_id) /\ Truthy(event.repository_full_name)
                 /\ Truthy(target_issue_number)) THEN "none"
       ELSE IF is_onboarding_request(comment_text) THEN "issue_onboarding"
       ELSE "comment_assistant"

\* _process_github_event: the run the event leads to ("none": no action)
github_route(event, feature_flags) ==
    IF event.event_type = "pull_request" /\ event.action \in {"opened", "synchronize"}
    THEN IF event.action = "synchronize" /\ ~feature_flags["commit_trigger"]
         THEN "none"
         ELSE IF ~Truthy(event.repository_full_name) \/ event.pr_number = None
         THEN "pull_request_skipped"
         ELSE "pull_request_review"
    ELSE IF event.event_type = "issues" /\ event.action = "opened"
    THEN "issue_summary"
    ELSE IF /\ event.event_type \in {"issue_comment", "pull_request_review_comment"}
            /\ event.action = "created"
    THEN IF ~feature_flags["comment_auto_reply"] THEN "none"
         ELSE comment_route(event, feature_flags)
    ELSE "none"

\* _process: the platform switch
route_of(event, feature_flags) ==
    IF event.platform = "github" THEN github_route(event, feature_flags)
    ELSE IF event.platform = "gitlab" THEN "gitlab_event_received"
    ELSE "none"

HasIssueTarget(event) ==
    /\ Truthy(event.installation_id)
    /\ Truthy(event.repository_full_name)
    /\ Truthy(event.issue_number)

HasPullRequestTarget(event) ==
    /\ Truthy(event.installation_id)
    /\ Truthy(event.repository_full_name)
    /\ Truthy(event.pr_number)

\* variant: an event that leads to no action recorded as a run of its own
FirstStep_recorded(route) ==
    CASE route = "pull_request_review" -> "start_run"
      [] OTHER -> "record_run"

\* the first await of a route
FirstStep(route) ==
    CASE route = "none" -> "finish"
      [] route = "pull_request_review" -> "start_run"
      [] OTHER -> "record_run"

\* what follows the commit of a run that was recorded done
AfterRun(route, event) ==
    IF route \in {"issue_onboarding", "comment_assistant"} THEN "upsert_comment"
    ELSE IF route = "issue_summary" /\ HasIssueTarget(event) THEN "upsert_comment"
    ELSE "finish"

\* what follows the comment call
AfterComment(route, event) ==
    IF route = "pull_request_review" /\ Truthy(event.head_sha)
    THEN "check_run" ELSE "finish"

\* The unit of work writes a column only when the value set differs from the
\* value the session loaded.
Written(stored, loaded, new) == IF loaded = new THEN stored ELSE new

EventOf(w) == delivery_logs[workers[w].delivery_log_id].normalized_event

(***************************************************************************)
(* WebhookProcessor.process_delivery_log, the handler of the queue job.    *)
(***************************************************************************)
StoreUnchanged ==
    UNCHANGED <<webhook_events, delivery_logs, installation_settings, review_runs>>

CallsUnchanged ==
    UNCHANGED <<queue, running, requests, replays, responses, counters, other>>

Seen(w, id, pc) ==
    workers' = [workers EXCEPT ![w].pc = pc,
                    ![w].seen_status = delivery_logs[id].status,
                    ![w].seen_error = delivery_logs[id].error_message]

\* variant: the handler without the check for a row already done
process_delivery_log_load_unchecked(w) ==
    /\ workers[w].pc = "load"
    /\ Seen(w, workers[w].delivery_log_id, "mark_processing")
    /\ StoreUnchanged
    /\ CallsUnchanged
    /\ UNCHANGED effects

\* session.get(DeliveryLog, id): a missing row and a row already done end the
\* handler
process_delivery_log_load(w) ==
    /\ workers[w].pc = "load"
    /\ LET id == workers[w].delivery_log_id
       IN IF id \notin DOMAIN delivery_logs
          THEN Return(w) /\ UNCHANGED effects
          ELSE IF delivery_logs[id].status = "done"
          THEN Return(w) /\ effects' = [effects EXCEPT ![id].skipped = @ + 1]
          ELSE Seen(w, id, "mark_processing") /\ UNCHANGED effects
    /\ StoreUnchanged
    /\ CallsUnchanged

\* status = "processing"; error_message = None; commit
process_delivery_log_mark_processing(w) ==
    /\ workers[w].pc = "mark_processing"
    /\ LET id == workers[w].delivery_log_id
       IN delivery_logs' = [delivery_logs EXCEPT
              ![id].status = Written(@, workers[w].seen_status, "processing"),
              ![id].error_message = Written(@, workers[w].seen_error, None)]
    /\ Goto(w, "process_load")
    /\ UNCHANGED <<webhook_events, installation_settings, review_runs, effects>>
    /\ CallsUnchanged

\* the flags known: the dispatch runs up to the first await of the route
Dispatch(w, seen_status, feature_flags) ==
    LET route == route_of(EventOf(w), feature_flags)
    IN workers' = [workers EXCEPT ![w].pc = FirstStep(route),
                       ![w].route = route,
                       ![w].seen_status = seen_status,
                       ![w].feature_flags = feature_flags]

\* _process: session.get in the second session; _get_feature_flags returns
\* the defaults of an event without installation
process_load(w) ==
    /\ workers[w].pc = "process_load"
    /\ LET id == workers[w].delivery_log_id
       IN IF id \notin DOMAIN delivery_logs THEN Return(w)
          ELSE IF EventOf(w).installation_id = None
          THEN Dispatch(w, delivery_logs[id].status, default_feature_flags)
          ELSE Seen(w, id, "flags_select")
    /\ StoreUnchanged
    /\ CallsUnchanged
    /\ UNCHANGED effects

SettingsOf(installation_id) ==
    {i \in 1..Len(installation_settings) :
        installation_settings[i].installation_id = installation_id}

\* variant: the stored flags filled in under the defaults
merged_flags_defaults_first(setting) ==
    [k \in DOMAIN default_feature_flags \cup DOMAIN setting.feature_flags_json |->
        IF k \in DOMAIN default_feature_flags
        THEN default_feature_flags[k] ELSE setting.feature_flags_json[k]]

\* defaults.copy() updated with the stored flags (the stored values are the
\* booleans the processor wrote, which bool() returns as they are)
merged_flags(setting) ==
    [k \in DOMAIN default_feature_flags \cup DOMAIN setting.feature_flags_json |->
        IF k \in DOMAIN setting.feature_flags_json
        THEN setting.feature_flags_json[k] ELSE default_feature_flags[k]]

\* _get_feature_flags: the select of the tenant's settings row
get_feature_flags_select(w) ==
    /\ workers[w].pc = "flags_select"
    /\ LET found == SettingsOf(EventOf(w).installation_id)
       IN IF found = {}
          THEN Goto(w, "flags_insert")
          ELSE Dispatch(w, workers[w].seen_status,
                        merged_flags(installation_settings[CHOOSE i \in found : TRUE]))
    /\ StoreUnchanged
    /\ CallsUnchanged
    /\ UNCHANGED effects

\* _get_feature_flags: session.add(setting); commit.  installation_id is
\* unique: the insert fails when another session has stored the row since.
get_feature_flags_insert(w) ==
    /\ workers[w].pc = "flags_insert"
    /\ LET installation_id == EventOf(w).installation_id
       IN IF SettingsOf(installation_id) # {}
          THEN /\ Raise(w, "IntegrityError")
               /\ UNCHANGED installation_settings
          ELSE /\ installation_settings' = Append(installation_settings,
                      [installation_id |-> installation_id,
                       feature_flags_json |-> default_feature_flags])
               /\ Dispatch(w, workers[w].seen_status, default_feature_flags)
    /\ UNCHANGED <<webhook_events, delivery_logs, review_runs, effects>>
    /\ CallsUnchanged

Run(delivery_log_id, run_type, status) ==
    [delivery_log_id |-> delivery_log_id, run_type |-> run_type, status |-> status]

Copies(e, n) == IF n = 0 THEN EmptyBag ELSE [x \in {e} |-> n]

Finding(delivery_log_id) == [delivery_log_id |-> delivery_log_id]

ScoreCardModel(delivery_log_id) == [delivery_log_id |-> delivery_log_id]

\* run.result_json = result.model_dump(): the sections of the result
RunResult(delivery_log_id, result) ==
    [delivery_log_id |-> delivery_log_id,
     pr_summary |-> result.pr_summary,
     file_summaries |-> result.file_summaries,
     suggestions |-> result.suggestions,
     score_card |-> result.score_card,
     sources |-> result.sources]

\* The result of build_pr_review by its sections: the summary generated, a
\* summary and a source for the file of a listing that answered, the
\* suggestions, the score card computed.
built_result(input) ==
    LET files == IF input.listing = "listed" THEN 1 ELSE 0
    IN [pr_summary |-> "generated", file_summaries |-> files,
        suggestions |-> input.suggestions, score_card |-> "scored",
        sources |-> files]

\* variant: a flag that is off empties the sections after it as well
section_flags_cascading(result, feature_flags) ==
    LET off(k) == ~feature_flags[k]
    IN [pr_summary |-> IF off("pr_summary") THEN "disabled" ELSE result.pr_summary,
        file_summaries |-> IF off("pr_summary") \/ off("file_summary")
                           THEN 0 ELSE result.file_summaries,
        suggestions |-> IF off("pr_summary") \/ off("file_summary")
                           \/ off("review_suggestions")
                        THEN 0 ELSE result.suggestions,
        score_card |-> IF off("scoring") THEN "zero" ELSE result.score_card,
        sources |-> result.sources]

\* _run_pull_request_review: the flags of the sections applied to the result
\* ("disabled": the fixed text; "zero": the four scores set to 0.0)
section_flags(result, feature_flags) ==
    [pr_summary |-> IF ~feature_flags["pr_summary"]
                    THEN "disabled" ELSE result.pr_summary,
     file_summaries |-> IF ~feature_flags["file_summary"]
                        THEN 0 ELSE result.file_summaries,
     suggestions |-> IF ~feature_flags["review_suggestions"]
                     THEN 0 ELSE result.suggestions,
     score_card |-> IF ~feature_flags["scoring"]
                    THEN "zero" ELSE result.score_card,
     sources |-> result.sources]

\* variant: the score card added to the session before the first commit
run_pull_request_review_start_scored(w) ==
    /\ workers[w].pc = "start_run"
    /\ review_runs' = Put(review_runs,
           Run(workers[w].delivery_log_id, "pull_request_review", "processing"))
    /\ score_cards' = Put(score_cards, ScoreCardModel(workers[w].delivery_log_id))
    /\ Goto(w, "review")
    /\ UNCHANGED <<webhook_events, delivery_logs, installation_settings, effects,
                   review_findings, run_results>>
    /\ UNCHANGED <<queue, running, requests, replays, responses, counters,
                   config, keyvars, tqvars, llmvars, review>>

\* _run_pull_request_review: the run is committed with status processing
run_pull_request_review_start(w) ==
    /\ workers[w].pc = "start_run"
    /\ review_runs' = Put(review_runs,
           Run(workers[w].delivery_log_id, "pull_request_review", "processing"))
    /\ Goto(w, "review")
    /\ UNCHANGED <<webhook_events, delivery_logs, installation_settings, effects>>
    /\ CallsUnchanged

\* variant: the second commit without run.status = "done"
run_pull_request_review_commit_unfinalized(w) ==
    /\ workers[w].pc = "review"
    /\ \E input \in {i \in review_inputs : i.listing \in ListingOutcomes(EventOf(w))} :
         LET id == workers[w].delivery_log_id
             listing == input.listing
             result == section_flags(built_result(input), workers[w].feature_flags)
             n == result.suggestions
         IN IF listing = "malformed"
            THEN /\ Raise(w, "ValueError")
                 /\ UNCHANGED <<review_runs, effects, artifacts>>
            ELSE /\ UNCHANGED review_runs
                 /\ run_results' = Put(run_results, RunResult(id, result))
                 /\ review_findings' = review_findings (+) Copies(Finding(id), n)
                 /\ score_cards' = Put(score_cards, ScoreCardModel(id))
                 /\ effects' = IF listing = "failed"
                               THEN [effects EXCEPT ![id].file_list_errors = @ + 1]
                               ELSE effects
                 /\ Goto(w, IF HasPullRequestTarget(EventOf(w))
                            THEN "upsert_comment"
                            ELSE AfterComment("none", EventOf(w)))
    /\ UNCHANGED <<webhook_events, delivery_logs, installation_settings>>
    /\ UNCHANGED <<queue, running, requests, replays, responses, counters,
                   config, keyvars, tqvars, llmvars, review>>

\* build_pr_review, then the one commit that stores the run as done with its
\* result, a finding per suggestion and the score card.  The exception of
\* build_pr_review leaves the function before the run is touched again.
run_pull_request_review_commit(w) ==
    /\ workers[w].pc = "review"
    /\ \E input \in {i \in review_inputs : i.listing \in ListingOutcomes(EventOf(w))} :
         LET id == workers[w].delivery_log_id
             listing == input.listing
             result == section_flags(built_result(input), workers[w].feature_flags)
             n == result.suggestions
         IN IF listing = "malformed"
            THEN /\ Raise(w, "ValueError")
                 /\ UNCHANGED <<review_runs, effects, artifacts>>
            ELSE /\ review_runs' = Put(
                        Remove(review_runs, Run(id, "pull_request_review", "processing")),
                        Run(id, "pull_request_review", "done"))
                 /\ run_results' = Put(run_results, RunResult(id, result))
                 /\ review_findings' = review_findings (+) Copies(Finding(id), n)
                 /\ score_cards' = Put(score_cards, ScoreCardModel(id))
                 /\ effects' = IF listing = "failed"
                               THEN [effects EXCEPT ![id].file_list_errors = @ + 1]
                               ELSE effects
                 /\ Goto(w, IF HasPullRequestTarget(EventOf(w))
                            THEN "upsert_comment"
                            ELSE AfterComment("none", EventOf(w)))
    /\ UNCHANGED <<webhook_events, delivery_logs, installation_settings>>
    /\ UNCHANGED <<queue, running, requests, replays, responses, counters,
                   config, keyvars, tqvars, llmvars, review>>

\* _record_non_pr_run: the run is committed with status done; for an opened
\* issue the label call precedes it
record_non_pr_run(w) ==
    /\ workers[w].pc = "record_run"
    /\ LET id == workers[w].delivery_log_id
           route == workers[w].route
       IN /\ review_runs' = Put(review_runs, Run(id, route, "done"))
          /\ Goto(w, AfterRun(route, EventOf(w)))
          /\ IF route = "issue_summary" /\ HasIssueTarget(EventOf(w))
             THEN \E applied \in BOOLEAN :
                     effects' = IF applied
                                THEN [effects EXCEPT ![id].labels = @ + 1]
                                ELSE [effects EXCEPT ![id].label_errors = @ + 1]
             ELSE UNCHANGED effects
    /\ UNCHANGED <<webhook_events, delivery_logs, installation_settings>>
    /\ CallsUnchanged

\* variant: the comment call outside try/except
upsert_comment_uncaught(w) ==
    /\ workers[w].pc = "upsert_comment"
    /\ LET id == workers[w].delivery_log_id
       IN \E posted \in BOOLEAN :
            IF posted
            THEN /\ effects' = [effects EXCEPT ![id].comments = @ + 1]
                 /\ Goto(w, AfterComment(workers[w].route, EventOf(w)))
            ELSE /\ effects' = [effects EXCEPT ![id].comment_errors = @ + 1]
                 /\ Raise(w, "HTTPStatusError")
    /\ StoreUnchanged
    /\ CallsUnchanged

\* upsert_pull_request_comment / upsert_issue_comment inside try/except: a
\* failure of the code host is caught and logged
upsert_comment(w) ==
    /\ workers[w].pc = "upsert_comment"
    /\ LET id == workers[w].delivery_log_id
       IN \E posted \in BOOLEAN :
            effects' = IF posted
                       THEN [effects EXCEPT ![id].comments = @ + 1]
                       ELSE [effects EXCEPT ![id].comment_errors = @ + 1]
    /\ Goto(w, AfterComment(workers[w].route, EventOf(w)))
    /\ StoreUnchanged
    /\ CallsUnchanged

\* create_or_update_check_run inside try/except
create_or_update_check_run(w) ==
    /\ workers[w].pc = "check_run"
    /\ LET id == workers[w].delivery_log_id
       IN \E created \in BOOLEAN :
            effects' = IF created
                       THEN [effects EXCEPT ![id].check_runs = @ + 1]
                       ELSE [effects EXCEPT ![id].check_run_errors = @ + 1]
    /\ Goto(w, "finish")
    /\ StoreUnchanged
    /\ CallsUnchanged

\* variant: _process returning without the status write
process_finish_unwritten(w) ==
    /\ workers[w].pc = "finish"
    /\ Return(w)
    /\ StoreUnchanged
    /\ CallsUnchanged
    /\ UNCHANGED effects

\* _process: delivery_log.status = "done"; commit
process_finish(w) ==
    /\ workers[w].pc = "finish"
    /\ LET id == workers[w].delivery_log_id
       IN delivery_logs' = [delivery_logs EXCEPT
              ![id].status = Written(@, workers[w].seen_status, "done")]
    /\ Return(w)
    /\ UNCHANGED <<webhook_events, installation_settings, review_runs, effects>>
    /\ CallsUnchanged

\* except Exception: session.get(DeliveryLog, id) in a third session
process_delivery_log_fail_load(w) ==
    /\ workers[w].pc = "fail_load"
    /\ LET id == workers[w].delivery_log_id
       IN IF id \notin DOMAIN delivery_logs THEN Return(w)
          ELSE Seen(w, id, "mark_failed")
    /\ StoreUnchanged
    /\ CallsUnchanged
    /\ UNCHANGED effects

\* variant: the except clause without the error message
process_delivery_log_mark_failed_silent(w) ==
    /\ workers[w].pc = "mark_failed"
    /\ LET id == workers[w].delivery_log_id
       IN delivery_logs' = [delivery_logs EXCEPT
              ![id].status = Written(@, workers[w].seen_status, "failed")]
    /\ Return(w)
    /\ UNCHANGED <<webhook_events, installation_settings, review_runs, effects>>
    /\ CallsUnchanged

\* variant: the except clause recording the error without the status
process_delivery_log_mark_failed_status_kept(w) ==
    /\ workers[w].pc = "mark_failed"
    /\ LET id == workers[w].delivery_log_id
       IN delivery_logs' = [delivery_logs EXCEPT
              ![id].error_message = Written(@, workers[w].seen_error, workers[w].exc)]
    /\ Return(w)
    /\ UNCHANGED <<webhook_events, installation_settings, review_runs, effects>>
    /\ CallsUnchanged

\* failed.status = "failed"; failed.error_message = str(exc); commit; the
\* handler returns to the worker loop
process_delivery_log_mark_failed(w) ==
    /\ workers[w].pc = "mark_failed"
    /\ LET id == workers[w].delivery_log_id
       IN delivery_logs' = [delivery_logs EXCEPT
              ![id].status = Written(@, workers[w].seen_status, "failed"),
              ![id].error_message = Written(@, workers[w].seen_error, workers[w].exc)]
    /\ Return(w)
    /\ UNCHANGED <<webhook_events, installation_settings, review_runs, effects>>
    /\ CallsUnchanged

(***************************************************************************)
(* The application: calls arriving, the queue, the workers.                *)
(***************************************************************************)
Installations == {"i1"}
\* datetime.now() of a replay call: instants are only compared for equality,
\* the k-th call observes one of the first k instants
Clock == 1..(IF n_replays + 1 < MaxClock THEN n_replays + 1 ELSE MaxClock)

Ingest ==
    \/ \E d \in deliveries :
          n_requests < MaxRequests /\ persist_and_enqueue_lookup(d)
    \/ \E r \in BagToSet(requests) : persist_and_enqueue_insert_event(r)
    \/ \E r \in BagToSet(requests) : persist_and_enqueue_insert_log(r)
    \/ \E r \in BagToSet(requests) : persist_and_enqueue_enqueue(r)

ReplayCall(budget) ==
    \E i \in Installations, e \in 1..MaxRequests, t \in Clock :
       n_replays < budget /\ replay_webhook_event_insert(i, e, t)

Replay ==
    \/ ReplayCall(MaxReplays)
    \/ \E id \in BagToSet(replays) : replay_webhook_event_enqueue(id)

WorkerStep(w) ==
    \/ worker_loop_get(w)
    \/ process_delivery_log_load(w)
    \/ process_delivery_log_mark_processing(w)
    \/ process_load(w)
    \/ get_feature_flags_select(w)
    \/ get_feature_flags_insert(w)
    \/ run_pull_request_review_start(w)
    \/ run_pull_request_review_commit(w)
    \/ record_non_pr_run(w)
    \/ upsert_comment(w)
    \/ create_or_update_check_run(w)
    \/ process_finish(w)
    \/ process_delivery_log_fail_load(w)
    \/ process_delivery_log_mark_failed(w)

Work == \E w \in Workers : WorkerStep(w)

Next == start \/ Ingest \/ Replay \/ Work

Spec == Init /\ [][Next]_vars

(***************************************************************************)
(* Liveness: the event loop runs every coroutine that can run.  A call     *)
(* that has passed its first await is continued, a worker that waits for a *)
(* job or is inside a handler is continued, the lifespan starts the queue. *)
(* No fairness is put on the arrival of calls.                             *)
(***************************************************************************)
Continue ==
    \/ \E r \in BagToSet(requests) : persist_and_enqueue_insert_event(r)
    \/ \E r \in BagToSet(requests) : persist_and_enqueue_insert_log(r)
    \/ \E r \in BagToSet(requests) : persist_and_enqueue_enqueue(r)
    \/ \E id \in BagToSet(replays) : replay_webhook_event_enqueue(id)

\* The behaviours checked for liveness: a reviewed pull request, alone or
\* with an event that takes no action or with a GitLab event.
LiveInit ==
    /\ Init
    /\ deliveries \subseteq {PullRequestOpened, GithubPing, GitlabMergeRequest}

LiveSpec ==
    /\ LiveInit
    /\ [][Next]_vars
    /\ WF_vars(start)
    /\ WF_vars(Continue)
    /\ \A w \in Workers : WF_vars(WorkerStep(w))

(***************************************************************************)
(* The inbound boundary of POST /webhooks/github and /webhooks/gitlab: a   *)
(* call is rejected before _persist_and_enqueue is reached.  A request     *)
(* carries a signature ("good" is sha256= the HMAC of its body under the   *)
(* webhook secret), a token and a body that is JSON or not; the settings   *)
(* of the deployment are drawn with the call.                              *)
(***************************************************************************)
Transports ==
    [signature : {None, "good", "bad"}, token : {None, "t", "bad"},
     body : {"json", "malformed"},
     feature_gitlab : BOOLEAN, gitlab_webhook_secret : {None, "t"}]

\* verify_github_signature / verify_gitlab_token, then json.loads: the
\* status of the HTTPException raised, or "accepted"
boundary(platform, t) ==
    IF platform = "github"
    THEN IF ~Truthy(t.signature) THEN "401"
         ELSE IF t.signature # "good" THEN "401"
         ELSE IF t.body = "malformed" THEN "400"
         ELSE "accepted"
    ELSE IF ~t.feature_gitlab THEN "404"
         ELSE IF /\ Truthy(t.gitlab_webhook_secret)
                 /\ ~Truthy(t.token) \/ t.token # t.gitlab_webhook_secret
         THEN "401"
         ELSE IF t.body = "malformed" THEN "400"
         ELSE "accepted"

\* variant: the raw payload stored before the request is verified
webhook_rejected_stored(d, t) ==
    /\ running
    /\ boundary(d.platform, t) # "accepted"
    /\ n_requests' = n_requests + 1
    /\ webhook_events' = Append(webhook_events, d)
    /\ responses' = responses \cup
          {Response("rejected", None, boundary(d.platform, t), FALSE, 0, FALSE)}
    /\ UNCHANGED <<delivery_logs, installation_settings,
                   review_runs, queue, running, workers, requests, replays,
                   effects, n_replays, n_redeliveries, other>>

\* github_webhook / gitlab_webhook ending in an HTTPException
webhook_rejected(d, t) ==
    /\ running
    /\ boundary(d.platform, t) # "accepted"
    /\ n_requests' = n_requests + 1
    /\ responses' = responses \cup
          {Response("rejected", None, boundary(d.platform, t), FALSE, 0, FALSE)}
    /\ UNCHANGED <<webhook_events, delivery_logs, installation_settings,
                   review_runs, queue, running, workers, requests, replays,
                   effects, n_replays, n_redeliveries, other>>

(***************************************************************************)
(* The ledger alone: the calls that insert ledger rows, no worker running  *)
(* a job.                                                                  *)
(***************************************************************************)
LedgerReplay ==
    \/ ReplayCall(MaxLedgerReplays)
    \/ \E id \in BagToSet(replays) : replay_webhook_event_enqueue(id)

Reject ==
    \E d \in deliveries, t \in Transports :
       n_requests < MaxRequests /\ webhook_rejected(d, t)

LedgerNext == start \/ Ingest \/ Reject \/ LedgerReplay

LedgerSpec == Init /\ [][LedgerNext]_vars

(***************************************************************************)
(* Redelivery: the handler is called again for a ledger entry, as a queue  *)
(* that hands a job out twice would do.                                    *)
(***************************************************************************)
redeliver(id) ==
    /\ running
    /\ n_redeliveries < MaxRedeliveries
    /\ n_redeliveries' = n_redeliveries + 1
    /\ enqueue("process_delivery_log", id)
    /\ effects' = Enqueued(id)
    /\ UNCHANGED <<webhook_events, delivery_logs, installation_settings,
                   review_runs, running, workers, requests, replays, responses,
                   n_requests, n_replays, other>>

RedeliveryNext ==
    \/ start
    \/ Ingest
    \/ Work
    \/ \E id \in DOMAIN delivery_logs : redeliver(id)

RedeliverySpec == Init /\ [][RedeliveryNext]_vars

(***************************************************************************)
(* The handling pass with everything a review can meet: the file listing   *)
(* fails or answers, no suggestion, two or five are kept.  A pull request  *)
(* is delivered with an opened issue or with a comment; no replay is made. *)
(***************************************************************************)
PassScenarios ==
    {{PullRequestOpened, IssueOpened}, {PullRequestOpened, CommentCreated}}

PassInit ==
    /\ AppInitWith(ReviewInputs)
    /\ deliveries \in PassScenarios
    /\ TaskQueueInit(queue_workers)
    /\ LlmInit(<<HealthyProvider>>)
    /\ ReviewInit

PassNext == start \/ Ingest \/ Work

PassSpec == PassInit /\ [][PassNext]_vars

(***************************************************************************)
(* Sections: an opened pull request and a new commit on it, or a pull       *)
(* request event without metadata, under every setting of commit_trigger   *)
(* and of the flags of the sections.                                       *)
(***************************************************************************)
(***************************************************************************)
(* Shutdown: the lifespan calls stop() once, after start().  stop() cancels *)
(* every worker task before it awaits any; the next step of a cancelled    *)
(* task is the CancelledError at its await.  CancelledError is no          *)
(* Exception: the except clauses of process_delivery_log and _worker_loop  *)
(* let it pass, the sessions close without a commit, the task ends.  Calls *)
(* still in flight go on and enqueue their jobs.                           *)
(***************************************************************************)
\* variant: the except clause of process_delivery_log catching the
\* cancellation as it catches an Exception
stop_caught ==
    /\ running
    /\ ~stopping
    /\ running' = FALSE
    /\ stopping' = TRUE
    /\ workers' = [w \in Workers |->
                      IF workers[w].pc \in {"idle", "load", "mark_processing",
                                            "fail_load", "mark_failed"}
                      THEN [workers[w] EXCEPT !.pc = "cancelled"]
                      ELSE [workers[w] EXCEPT !.pc = "fail_load",
                                              !.exc = "CancelledError"]]
    /\ UNCHANGED <<webhook_events, delivery_logs, installation_settings,
                   review_runs, queue, requests, replays, responses, effects,
                   counters, config, keyvars, llmvars, reviewvars>>
    /\ UNCHANGED <<_workers, _queue, _handlers, _worker_tasks, _running,
                   journal, n_jobs, n_calls>>

\* InMemoryTaskQueue.stop with the cancellations it delivers: a task waiting
\* in queue.get() ends, a task inside a handler leaves the handler at its
\* await and ends; nothing is written and nothing is put on the queue
stop ==
    /\ running
    /\ ~stopping
    /\ running' = FALSE
    /\ stopping' = TRUE
    /\ workers' = [w \in Workers |-> [workers[w] EXCEPT !.pc = "cancelled"]]
    /\ UNCHANGED <<webhook_events, delivery_logs, installation_settings,
                   review_runs, queue, requests, replays, responses, effects,
                   counters, config, keyvars, llmvars, reviewvars>>
    /\ UNCHANGED <<_workers, _queue, _handlers, _worker_tasks, _running,
                   journal, n_jobs, n_calls>>

StopInit ==
    /\ AppInitOf({{PullRequestOpened, IssueOpened}}, SettledInputs)
    /\ TaskQueueInit(queue_workers)
    /\ LlmInit(<<HealthyProvider>>)
    /\ ReviewInit

StopNext == (~stopping /\ start) \/ stop \/ Ingest \/ Work

StopSpec == StopInit /\ [][StopNext]_vars

SectionSettings ==
    {f \in [FlagNames -> BOOLEAN] :
        f["comment_auto_reply"] /\ f["comment_reply_all"]}

SectionInit ==
    /\ AppInitIn({{PullRequestOpened, PullRequestSynchronize},
                  {PullRequestOpened, PullRequestNoMetadata}},
                 ReviewInputs, SectionSettings)
    /\ installation_settings = <<>>
    /\ TaskQueueInit(queue_workers)
    /\ LlmInit(<<HealthyProvider>>)
    /\ ReviewInit

SectionSpec == SectionInit /\ [][PassNext]_vars

(***************************************************************************)
(* Comments: a pull request is delivered with one created comment, under   *)
(* every setting of the comment flags.                                     *)
(***************************************************************************)
CommentInit ==
    /\ AppInitOf({{PullRequestOpened, c} : c \in CommentDeliveries}, SettledInputs)
    /\ TaskQueueInit(queue_workers)
    /\ LlmInit(<<HealthyProvider>>)
    /\ ReviewInit

CommentSpec == CommentInit /\ [][PassNext]_vars

(***************************************************************************)
(* The key function on its own: two inputs are drawn, the second differing *)
(* from the first in at most one component.                                *)
(***************************************************************************)
Alphabet == {"a", ":"}

RECURSIVE Strings(_)
Strings(n) ==
    IF n = 0 THEN {""}
    ELSE Strings(n - 1) \cup {s \o c : s \in Strings(n - 1), c \in Alphabet}

(***************************************************************************)
(* The settings of the tenants on their own: _get_feature_flags is called  *)
(* by one session after the other, for no tenant, for tenant i1 and for    *)
(* tenant i2, under every setting of the process defaults.  The store      *)
(* starts empty or with the row of i1 as an earlier run of the process     *)
(* left it: written under other defaults, or with a part of the flags.     *)
(***************************************************************************)
MaxReads == 3

AllSettings == [FlagNames -> BOOLEAN]

StoredFlags ==
    {[k \in {} |-> TRUE],
     [k \in {"commit_trigger"} |-> FALSE],
     [k \in {"scoring", "developer_eval"} |-> k = "developer_eval"],
     [k \in FlagNames |-> TRUE],
     [k \in FlagNames |-> FALSE]}

StoredSettings ==
    {<<>>} \cup {<<[installation_id |-> "i1", feature_flags_json |-> f]>> :
                    f \in StoredFlags}

\* _get_feature_flags from its call to its return: the flags returned and
\* the rows of the store afterwards
_get_feature_flags(settings, installation_id) ==
    LET found == {i \in 1..Len(settings) :
                     settings[i].installation_id = installation_id}
    IN IF installation_id = None
       THEN [flags |-> default_feature_flags, rows |-> settings]
       ELSE IF found = {}
       THEN [flags |-> default_feature_flags,
             rows |-> Append(settings,
                             [installation_id |-> installation_id,
                              feature_flags_json |-> default_feature_flags])]
       ELSE [flags |-> merged_flags(settings[CHOOSE i \in found : TRUE]),
             rows |-> settings]

\* one call, logged with the rows it found
get_feature_flags_call(installation_id) ==
    /\ Len(key_out) < MaxReads
    /\ LET r == _get_feature_flags(installation_settings, installation_id)
       IN /\ installation_settings' = r.rows
          /\ key_out' = Append(key_out,
                               [installation_id |-> installation_id,
                                rows |-> installation_settings,
                                flags |-> r.flags])
    /\ UNCHANGED <<webhook_events, delivery_logs, review_runs, queue, running,
                   workers, requests, replays, responses, effects, counters,
                   config, key_in, tqvars, llmvars, reviewvars>>

SettingsInit ==
    /\ AppInitIn({{PullRequestOpened}}, SettledInputs, AllSettings)
    /\ installation_settings \in StoredSettings
    /\ TaskQueueInit(queue_workers)
    /\ LlmInit(<<HealthyProvider>>)
    /\ ReviewInit

SettingsNext == \E t \in {None, "i1", "i2"} : get_feature_flags_call(t)

SettingsSpec == SettingsInit /\ [][SettingsNext]_vars

KeyInputs == [1..4 -> Strings(MaxKeyLen)]

Differing(a, b) == {k \in 1..4 : a[k] # b[k]}

key_call(a, b) ==
    /\ key_in = <<>>
    /\ key_in' = <<a, b>>
    /\ key_out' = <<_idempotency_key(a[1], a[2], a[3], a[4]),
                    _idempotency_key(b[1], b[2], b[3], b[4])>>
    /\ UNCHANGED <<webhook_events, delivery_logs, installation_settings,
                   review_runs, queue, running, workers, requests, replays,
                   responses, effects, counters, config, tqvars, llmvars,
                   reviewvars>>

KeyNext ==
    \E a \in KeyInputs, k \in 1..4, v \in Strings(MaxKeyLen) :
       key_call(a, [a EXCEPT ![k] = v])

KeySpec == Init /\ [][KeyNext]_vars

(***************************************************************************)
(* InMemoryTaskQueue on its own, with handlers of any kind: a handler      *)
(* returns or raises.  start() and stop() are called by one caller, one    *)
(* after the other (the lifespan of the application); jobs are enqueued    *)
(* and handlers registered at any time.  A task of _worker_tasks is        *)
(* waiting in queue.get(), handling a job, or has exited; cancelled says   *)
(* that stop() has cancelled it and the CancelledError is still to be      *)
(* delivered at its await.                                                 *)
(***************************************************************************)
JobNames == {"process_delivery_log", "reindex"}

AppUnchanged ==
    UNCHANGED <<webhook_events, delivery_logs, installation_settings,
                review_runs, queue, running, workers, requests, replays,
                responses, effects, counters, config, keyvars, llmvars,
                reviewvars>>

WaitingTask == [state |-> "waiting", job |-> 0, cancelled |-> FALSE]

Live(tasks) == {t \in DOMAIN tasks : tasks[t].state # "exited"}

Entry(ev, job, task) == [ev |-> ev, job |-> job, task |-> task]

\* register_handler(name, handler)
register_handler(name) ==
    /\ name \notin _handlers
    /\ _handlers' = _handlers \cup {name}
    /\ UNCHANGED <<_workers, _queue, _worker_tasks, _running, stopping, journal,
                   n_jobs, n_calls>>
    /\ AppUnchanged

\* variant: start() without the check of _running
queue_start_unguarded ==
    /\ ~stopping
    /\ n_calls < MaxCalls
    /\ n_calls' = n_calls + 1
    /\ _running' = TRUE
    /\ _worker_tasks' = _worker_tasks \o [i \in 1.._workers |-> WaitingTask]
    /\ UNCHANGED <<_workers, _queue, _handlers, stopping, journal, n_jobs>>
    /\ AppUnchanged

\* start(): returns at once when running, else creates _workers tasks
queue_start ==
    /\ ~stopping
    /\ n_calls < MaxCalls
    /\ n_calls' = n_calls + 1
    /\ IF _running
       THEN UNCHANGED <<_running, _worker_tasks>>
       ELSE /\ _running' = TRUE
            /\ _worker_tasks' = _worker_tasks \o [i \in 1.._workers |-> WaitingTask]
    /\ UNCHANGED <<_workers, _queue, _handlers, stopping, journal, n_jobs>>
    /\ AppUnchanged

\* stop() up to its first await: _running = False; task.cancel() for each
queue_stop_cancel ==
    /\ ~stopping
    /\ n_calls < MaxCalls
    /\ n_calls' = n_calls + 1
    /\ _running' = FALSE
    /\ _worker_tasks' = [t \in DOMAIN _worker_tasks |->
                            IF _worker_tasks[t].state = "exited"
                            THEN _worker_tasks[t]
                            ELSE [_worker_tasks[t] EXCEPT !.cancelled = TRUE]]
    /\ stopping' = TRUE
    /\ UNCHANGED <<_workers, _queue, _handlers, journal, n_jobs>>
    /\ AppUnchanged

\* CancelledError at the await of a cancelled task: it is no Exception, the
\* except clauses let it pass, finally runs task_done(), the loop ends
worker_loop_cancelled(t) ==
    /\ _worker_tasks[t].cancelled
    /\ _worker_tasks[t].state # "exited"
    /\ _worker_tasks' = [_worker_tasks EXCEPT ![t].state = "exited"]
    /\ journal' = IF _worker_tasks[t].state = "handling"
                  THEN Append(journal, Entry("abandon", _worker_tasks[t].job, t))
                  ELSE journal
    /\ UNCHANGED <<_workers, _queue, _handlers, _running, stopping, n_jobs, n_calls>>
    /\ AppUnchanged

\* stop(): every task awaited; _worker_tasks.clear()
queue_stop_return ==
    /\ stopping
    /\ Live(_worker_tasks) = {}
    /\ _worker_tasks' = <<>>
    /\ stopping' = FALSE
    /\ UNCHANGED <<_workers, _queue, _handlers, _running, journal, n_jobs, n_calls>>
    /\ AppUnchanged

\* enqueue(name, payload): the queue is unbounded, put() does not wait
queue_enqueue(name) ==
    /\ n_jobs < MaxJobs
    /\ n_jobs' = n_jobs + 1
    /\ _queue' = Append(_queue, [id |-> n_jobs + 1, name |-> name])
    /\ UNCHANGED <<_workers, _handlers, _worker_tasks, _running, stopping,
                   journal, n_calls>>
    /\ AppUnchanged

\* variant: a job without a handler is put back on the queue
worker_loop_take_requeueing(t) ==
    /\ _worker_tasks[t].state = "waiting"
    /\ ~_worker_tasks[t].cancelled
    /\ _queue # <<>>
    /\ IF Head(_queue).name \in _handlers
       THEN /\ _queue' = Tail(_queue)
            /\ _worker_tasks' = [_worker_tasks EXCEPT ![t].state = "handling",
                                                      ![t].job = Head(_queue).id]
            /\ journal' = Append(journal, Entry("run", Head(_queue).id, t))
       ELSE /\ _queue' = Append(Tail(_queue), Head(_queue))
            /\ journal' = Append(journal, Entry("drop", Head(_queue).id, t))
            /\ UNCHANGED _worker_tasks
    /\ UNCHANGED <<_workers, _handlers, _running, stopping, n_jobs, n_calls>>
    /\ AppUnchanged

\* variant: the worker takes the job enqueued last
worker_loop_take_last(t) ==
    /\ _worker_tasks[t].state = "waiting"
    /\ ~_worker_tasks[t].cancelled
    /\ _queue # <<>>
    /\ _queue' = SubSeq(_queue, 1, Len(_queue) - 1)
    /\ IF _queue[Len(_queue)].name \in _handlers
       THEN /\ _worker_tasks' = [_worker_tasks EXCEPT ![t].state = "handling",
                                                      ![t].job = _queue[Len(_queue)].id]
            /\ journal' = Append(journal, Entry("run", _queue[Len(_queue)].id, t))
       ELSE /\ journal' = Append(journal, Entry("drop", _queue[Len(_queue)].id, t))
            /\ UNCHANGED _worker_tasks
    /\ UNCHANGED <<_workers, _handlers, _running, stopping, n_jobs, n_calls>>
    /\ AppUnchanged

\* _worker_loop: job = await self._queue.get(); a job whose name has no
\* handler is logged and dropped (continue, task_done in finally), the
\* handler of any other job is called
worker_loop_take(t) ==
    /\ _worker_tasks[t].state = "waiting"
    /\ ~_worker_tasks[t].cancelled
    /\ _queue # <<>>
    /\ _queue' = Tail(_queue)
    /\ IF Head(_queue).name \in _handlers
       THEN /\ _worker_tasks' = [_worker_tasks EXCEPT ![t].state = "handling",
                                                      ![t].job = Head(_queue).id]
            /\ journal' = Append(journal, Entry("run", Head(_queue).id, t))
       ELSE /\ journal' = Append(journal, Entry("drop", Head(_queue).id, t))
            /\ UNCHANGED _worker_tasks
    /\ UNCHANGED <<_workers, _handlers, _running, stopping, n_jobs, n_calls>>
    /\ AppUnchanged

\* variant: a worker loop without the except clause, ended by the exception
worker_loop_handled_fatal(t) ==
    /\ _worker_tasks[t].state = "handling"
    /\ ~_worker_tasks[t].cancelled
    /\ \E raised \in BOOLEAN :
          /\ journal' = Append(journal,
                Entry(IF raised THEN "raise" ELSE "return", _worker_tasks[t].job, t))
          /\ _worker_tasks' = [_worker_tasks EXCEPT ![t] =
                IF raised THEN [WaitingTask EXCEPT !.state = "exited"]
                ELSE WaitingTask]
    /\ UNCHANGED <<_workers, _queue, _handlers, _running, stopping, n_jobs, n_calls>>
    /\ AppUnchanged

\* _worker_loop: await handler(job.payload) returns, or raises an Exception
\* that is logged; finally task_done(); the loop goes back to queue.get()
worker_loop_handled(t) ==
    /\ _worker_tasks[t].state = "handling"
    /\ ~_worker_tasks[t].cancelled
    /\ \E raised \in BOOLEAN :
          journal' = Append(journal,
              Entry(IF raised THEN "raise" ELSE "return", _worker_tasks[t].job, t))
    /\ _worker_tasks' = [_worker_tasks EXCEPT ![t] = WaitingTask]
    /\ UNCHANGED <<_workers, _queue, _handlers, _running, stopping, n_jobs, n_calls>>
    /\ AppUnchanged

QueueInit ==
    /\ AppInit
    /\ deliveries = {PullRequestOpened}
    /\ \E configured \in 0..queue_workers : TaskQueueInit(configured)
    /\ LlmInit(<<HealthyProvider>>)
    /\ ReviewInit

QueueNext ==
    \/ \E name \in JobNames : register_handler(name)
    \/ queue_start
    \/ queue_stop_cancel
    \/ queue_stop_return
    \/ \E name \in JobNames : queue_enqueue(name)
    \/ \E t \in DOMAIN _worker_tasks :
          \/ worker_loop_cancelled(t)
          \/ worker_loop_take(t)
          \/ worker_loop_handled(t)

QueueSpec == QueueInit /\ [][QueueNext]_vars

(***************************************************************************)
(* FallbackLLMProvider on its own: one call of generate, embed_text or     *)
(* stream_generate over providers whose calls succeed or fail.  calls      *)
(* lists the providers called, out the tokens handed to the consumer.      *)
(***************************************************************************)
ResultOf(i) == "result-" \o ToString(i)
FailureOf(i) == "failure-" \o ToString(i)
Token(i, k) == [provider |-> i, k |-> k]

LlmUnchanged ==
    UNCHANGED <<webhook_events, delivery_logs, installation_settings,
                review_runs, queue, running, workers, requests, replays,
                responses, effects, counters, config, keyvars, tqvars,
                reviewvars>>

\* the consumer calls generate, embed_text or stream_generate
fallback_call(op) ==
    /\ llm.op = "none"
    /\ llm' = [NoCall EXCEPT !.op = op, !.i = 1, !.status = "pending"]
    /\ UNCHANGED _providers
    /\ LlmUnchanged

\* variant: the error raised carries the first failure
TryProviderFirstCause(op) ==
    /\ llm.op = op
    /\ llm.status = "pending"
    /\ LET i == llm.i
           called == [llm EXCEPT !.calls = Append(@, i)]
           cause == IF llm.cause = None THEN FailureOf(i) ELSE llm.cause
       IN llm' = IF _providers[i][op]
                 THEN [called EXCEPT !.status = "returned", !.value = ResultOf(i)]
                 ELSE IF i < Len(_providers)
                 THEN [called EXCEPT !.i = i + 1, !.cause = cause]
                 ELSE [called EXCEPT !.status = "raised", !.value = "RuntimeError",
                                     !.cause = cause]
    /\ UNCHANGED _providers
    /\ LlmUnchanged

\* generate / embed_text: await the call of provider i; its result is
\* returned, its exception is kept as last_exc and the loop goes on; after
\* the last provider RuntimeError is raised from last_exc
TryProvider(op) ==
    /\ llm.op = op
    /\ llm.status = "pending"
    /\ LET i == llm.i
           called == [llm EXCEPT !.calls = Append(@, i)]
       IN llm' = IF _providers[i][op]
                 THEN [called EXCEPT !.status = "returned", !.value = ResultOf(i)]
                 ELSE IF i < Len(_providers)
                 THEN [called EXCEPT !.i = i + 1, !.cause = FailureOf(i)]
                 ELSE [called EXCEPT !.status = "raised", !.value = "RuntimeError",
                                     !.cause = FailureOf(i)]
    /\ UNCHANGED _providers
    /\ LlmUnchanged

generate == TryProvider("generate")

embed_text == TryProvider("embed_text")

\* variant: a provider that fails ends the stream with the error
stream_generate_first_only ==
    /\ llm.op = "stream_generate"
    /\ llm.status = "pending"
    /\ LET i == llm.i
           p == _providers[i]
           called == IF llm.pos = 0 THEN [llm EXCEPT !.calls = Append(@, i)] ELSE llm
       IN llm' = IF llm.pos < p.tokens
                 THEN [called EXCEPT !.pos = @ + 1,
                                     !.out = Append(@, Token(i, llm.pos + 1))]
                 ELSE IF p.completes
                 THEN [called EXCEPT !.status = "returned"]
                 ELSE [called EXCEPT !.status = "raised", !.value = "RuntimeError"]
    /\ UNCHANGED _providers
    /\ LlmUnchanged

\* stream_generate: the next step of the stream of provider i: a token is
\* yielded, or the stream completes and the generator returns, or it raises:
\* except Exception: continue, and after the last provider RuntimeError
stream_generate ==
    /\ llm.op = "stream_generate"
    /\ llm.status = "pending"
    /\ LET i == llm.i
           p == _providers[i]
           called == IF llm.pos = 0 THEN [llm EXCEPT !.calls = Append(@, i)] ELSE llm
       IN llm' = IF llm.pos < p.tokens
                 THEN [called EXCEPT !.pos = @ + 1,
                                     !.out = Append(@, Token(i, llm.pos + 1))]
                 ELSE IF p.completes
                 THEN [called EXCEPT !.status = "returned"]
                 ELSE IF i < Len(_providers)
                 THEN [called EXCEPT !.i = i + 1, !.pos = 0]
                 ELSE [called EXCEPT !.status = "raised", !.value = "RuntimeError"]
    /\ UNCHANGED _providers
    /\ LlmUnchanged

ProviderLists ==
    UNION {[1..n -> ProviderBehaviours] : n \in 1..MaxProviders}

ProviderInit ==
    /\ AppInit
    /\ deliveries = {PullRequestOpened}
    /\ TaskQueueInit(queue_workers)
    /\ \E providers \in ProviderLists : LlmInit(providers)
    /\ ReviewInit

ProviderNext ==
    \/ \E op \in {"generate", "embed_text", "stream_generate"} : fallback_call(op)
    \/ generate
    \/ embed_text
    \/ stream_generate

ProviderSpec == ProviderInit /\ [][ProviderNext]_vars

(***************************************************************************)
(* ReviewService.build_pr_review on its own.  One call is made, for an     *)
(* event drawn from ReviewEvents; the code host answers the file listing   *)
(* with a list drawn from FileLists or fails; each llm_provider.generate   *)
(* call returns a reply or raises.  One action per await.                  *)
(*                                                                         *)
(* Texts the code searches, lower-cases or strips are sequences of         *)
(* characters; an optional text that is None is NoText.  The scores of     *)
(* the scorecard are in hundredths.                                        *)
(***************************************************************************)
NoText == <<None>>

Take(s, n) == SubSeq(s, 1, IF Len(s) < n THEN Len(s) ELSE n)

\* re.search(r"\b(w)\b", text); the characters of the texts that are not
\* word characters are " ", "." and "/"
HasWord(s, w) ==
    LET NonWordChars == {" ", ".", "/"}
    IN
    \E i \in 1..(Len(s) - Len(w) + 1) :
       /\ SubSeq(s, i, i + Len(w) - 1) = w
       /\ i = 1 \/ s[i - 1] \in NonWordChars
       /\ i + Len(w) > Len(s) \/ s[i + Len(w)] \in NonWordChars

\* " ".join(texts)
RECURSIVE Join(_)
Join(texts) ==
    IF texts = <<>> THEN <<>>
    ELSE IF Len(texts) = 1 THEN texts[1]
    ELSE texts[1] \o <<" ">> \o Join(Tail(texts))

s_low == <<"l", "o", "w">>
s_medium == <<"m", "e", "d", "i", "u", "m">>
s_high == <<"h", "i", "g", "h">>

\* ReviewSuggestion.severity, FileChangeSummary.risk: Literal["low", "medium", "high"]
Levels == {s_low, s_medium, s_high}

REVIEW_CATEGORIES ==
    {"feature", "fix", "refactor", "docs", "test", "chore", "mixed"}

Filenames(files) == [i \in DOMAIN files |-> Get(files[i], "filename", <<>>)]

\* variant: the feature rule tried first
_categorize_pr_feature_first(title, files) ==
    LET title_l == lower(title)
        names == Filenames(files)
        FixWords ==
            {<<"f", "i", "x">>, <<"b", "u", "g">>, <<"h", "o", "t", "f", "i", "x">>}
        RefactorWords ==
            {<<"r", "e", "f", "a", "c", "t", "o", "r">>, <<"c", "l", "e", "a", "n", "u", "p">>}
        TestWords == {<<"t", "e", "s", "t">>, <<"s", "p", "e", "c">>}
        DocsWords ==
            {<<"d", "o", "c", "s">>, <<"r", "e", "a", "d", "m", "e">>,
             <<"d", "o", "c", "u", "m", "e", "n", "t", "a", "t", "i", "o", "n">>}
        DocsPath == <<"d", "o", "c", "s", "/">>
        ChoreWords ==
            {<<"c", "h", "o", "r", "e">>, <<"c", "i">>, <<"b", "u", "i", "l", "d">>,
             <<"d", "e", "p", "s">>}
        FeatureWords ==
            {<<"a", "d", "d">>, <<"i", "m", "p", "l", "e", "m", "e", "n", "t">>,
             <<"i", "n", "t", "r", "o", "d", "u", "c", "e">>,
             <<"c", "r", "e", "a", "t", "e">>, <<"f", "e", "a", "t">>}
        file_paths == Join([i \in DOMAIN names |-> lower(names[i])])
    IN IF \E w \in FeatureWords : HasWord(title_l, w) THEN "feature"
       ELSE IF \E w \in FixWords : Contains(title_l, w) THEN "fix"
       ELSE IF \E w \in RefactorWords : Contains(title_l, w) THEN "refactor"
       ELSE IF \E w \in TestWords : Contains(title_l, w) THEN "test"
       ELSE IF \/ \E w \in DocsWords : Contains(title_l, w)
               \/ Contains(file_paths, DocsPath) THEN "docs"
       ELSE IF \E w \in ChoreWords : Contains(title_l, w) THEN "chore"
       ELSE IF \E w \in FeatureWords : HasWord(title_l, w) THEN "feature"
       ELSE "mixed"

_categorize_pr(title, files) ==
    LET title_l == lower(title)
        names == Filenames(files)
        FixWords ==
            {<<"f", "i", "x">>, <<"b", "u", "g">>, <<"h", "o", "t", "f", "i", "x">>}
        RefactorWords ==
            {<<"r", "e", "f", "a", "c", "t", "o", "r">>, <<"c", "l", "e", "a", "n", "u", "p">>}
        TestWords == {<<"t", "e", "s", "t">>, <<"s", "p", "e", "c">>}
        DocsWords ==
            {<<"d", "o", "c", "s">>, <<"r", "e", "a", "d", "m", "e">>,
             <<"d", "o", "c", "u", "m", "e", "n", "t", "a", "t", "i", "o", "n">>}
        DocsPath == <<"d", "o", "c", "s", "/">>
        ChoreWords ==
            {<<"c", "h", "o", "r", "e">>, <<"c", "i">>, <<"b", "u", "i", "l", "d">>,
             <<"d", "e", "p", "s">>}
        FeatureWords ==
            {<<"a", "d", "d">>, <<"i", "m", "p", "l", "e", "m", "e", "n", "t">>,
             <<"i", "n", "t", "r", "o", "d", "u", "c", "e">>,
             <<"c", "r", "e", "a", "t", "e">>, <<"f", "e", "a", "t">>}
        file_paths == Join([i \in DOMAIN names |-> lower(names[i])])
    IN IF \E w \in FixWords : Contains(title_l, w) THEN "fix"
       ELSE IF \E w \in RefactorWords : Contains(title_l, w) THEN "refactor"
       ELSE IF \E w \in TestWords : Contains(title_l, w) THEN "test"
       ELSE IF \/ \E w \in DocsWords : Contains(title_l, w)
               \/ Contains(file_paths, DocsPath) THEN "docs"
       ELSE IF \E w \in ChoreWords : Contains(title_l, w) THEN "chore"
       ELSE IF \E w \in FeatureWords : HasWord(title_l, w) THEN "feature"
       ELSE "mixed"

\* the events of the calls; the titles are "Fix add", "add", "ci add",
\* "spec docs" and none
ReviewEvents ==
    [repository_full_name : {"o/r", None}, pr_number : {"n1", None},
     installation_id : {"i1", None},
     pr_title : {<<"F", "i", "x", " ", "a", "d", "d">>, <<"a", "d", "d">>,
                 <<"c", "i", " ", "a", "d", "d">>,
                 <<"s", "p", "e", "c", " ", "d", "o", "c", "s">>,
                 NoText}]

\* changed files as the code host lists them: a.py, test.py, docs/a
FileItems ==
    {[filename |-> <<"a", ".", "p", "y">>, status |-> "modified",
      additions |-> 10, deletions |-> 2],
     [filename |-> <<"t", "e", "s", "t", ".", "p", "y">>, status |-> "added",
      additions |-> 300, deletions |-> 0],
     [filename |-> <<"d", "o", "c", "s", "/", "a">>, status |-> "modified",
      additions |-> 60, deletions |-> 30]}

FileLists == UNION {[1..n -> FileItems] : n \in 0..MaxFiles}

\* what a generate call gives: it raises, or returns one of the texts
\* "ok ", "High", "medium"
GenerateFails == <<"raise">>
GenerateOutcomes ==
    {GenerateFails, <<"o", "k", " ">>, <<"H", "i", "g", "h">>, s_medium}

\* A reply to the suggestions prompt is a sequence of characters in which a
\* JSON value that is not a list is one character: "D" an object with a
\* title only, "H" an object with severity "High", "C" an object with a
\* severity outside the levels, "1" a number; "p" is a character of prose.
\* The replies: [D,H]; []; [1]; [C]; [H,1]; a list of seven objects; a
\* fenced list; prose; prose followed by a list; an object; prose with
\* brackets; five numbers followed by an object.
RawReplies ==
    {<<"[", "D", ",", "H", "]">>,
     <<"[", "]">>,
     <<"[", "1", "]">>,
     <<"[", "C", "]">>,
     <<"[", "H", ",", "1", "]">>,
     <<"[", "D", ",", "H", ",", "D", ",", "D", ",", "D", ",", "H", ",", "H", "]">>,
     <<"~", "~", "~", "j", "s", "o", "n", " ", "[", "H", "]", " ", "~", "~", "~">>,
     <<"p", "p", "p">>,
     <<"p", "p", " ", "[", "H", "]">>,
     <<"D">>,
     <<"p", " ", "[", "p", "]">>,
     <<"[", "1", ",", "1", ",", "1", ",", "1", ",", "1", ",", "D", "]", " ">>}

_extract_json(text) ==
    LET Strip(s, c) ==
            LET keep == {i \in DOMAIN s : s[i] # c}
            IN IF keep = {} THEN <<>>
               ELSE SubSeq(s, CHOOSE i \in keep : \A k \in keep : i <= k,
                              CHOOSE i \in keep : \A k \in keep : i >= k)
        StartsWith(s, p) == Len(s) >= Len(p) /\ SubSeq(s, 1, Len(p)) = p
        stripped == Strip(text, " ")
        unfenced == Strip(stripped, "~")
        raw == IF ~StartsWith(stripped, <<"~", "~", "~">>) THEN stripped
               ELSE IF StartsWith(lower(unfenced), <<"j", "s", "o", "n">>)
               THEN SubSeq(unfenced, 5, Len(unfenced))
               ELSE unfenced
        opens == {i \in DOMAIN raw : raw[i] = "["}
        closes == {i \in DOMAIN raw : raw[i] = "]"}
        first == IF opens = {} THEN 0 - 1
                 ELSE (CHOOSE i \in opens : \A k \in opens : i <= k) - 1
        last == IF closes = {} THEN 0 - 1
               ELSE (CHOOSE i \in closes : \A k \in closes : i >= k) - 1
    IN IF first >= 0 /\ last > first THEN SubSeq(raw, first + 1, last + 1)
       ELSE raw

ScalarItem == [scalar |-> TRUE]

\* json.loads: it raises ("invalid"), gives a value that is not a list
\* ("object"), or gives a list, whose items are objects or ScalarItem
loads(text) ==
    LET t == SelectSeq(text, LAMBDA c : c # " ")
        ItemOf(c) ==
            CASE c = "D" -> [title |-> "Rename"]
              [] c = "H" -> [title |-> "Rename", details |-> "Use a clearer name.",
                             severity |-> <<"H", "i", "g", "h">>,
                             file_path |-> <<"a", ".", "p", "y">>]
              [] c = "C" -> [title |-> "Rename", severity |-> <<"c", "r", "i", "t">>]
              [] OTHER -> ScalarItem
        Values == {"D", "H", "C", "1"}
        inner == SubSeq(t, 2, Len(t) - 1)
    IN IF Len(t) = 1 /\ t[1] \in Values THEN [json |-> "object"]
       ELSE IF /\ Len(t) >= 2 /\ t[1] = "[" /\ t[Len(t)] = "]"
               /\ inner = <<>> \/ Len(inner) % 2 = 1
               /\ \A i \in DOMAIN inner :
                     IF i % 2 = 1 THEN inner[i] \in Values ELSE inner[i] = ","
       THEN [json |-> "list",
             items |-> [i \in 1..((Len(inner) + 1) \div 2) |-> ItemOf(inner[2 * i - 1])]]
       ELSE [json |-> "invalid"]

\* what the generate call for the suggestions gives once its reply is
\* parsed: the call raises, or json.loads(_extract_json(raw)) raises, gives
\* a value that is not a list, or gives a list
SuggestionOutcomes ==
    {[json |-> "raise"]} \cup {loads(_extract_json(raw)) : raw \in RawReplies}

\* ReviewSuggestion(...) of one item of the list
Suggestion(item) ==
    [file_path |-> Get(item, "file_path", NoText),
     title |-> Get(item, "title", "Review suggestion"),
     details |-> Get(item, "details", "No details provided."),
     severity |-> lower(Get(item, "severity", s_medium))]

fallback_suggestions(files) ==
    <<[file_path |-> IF files = <<>> THEN NoText
                     ELSE Get(files[1], "filename", NoText),
       title |-> "Validate edge cases",
       details |-> "Review boundary conditions and error handling for modified paths.",
       severity |-> s_medium],
      [file_path |-> NoText,
       title |-> "Add or update tests",
       details |-> "Ensure behavior changes are covered by tests to prevent regressions.",
       severity |-> s_medium]>>

\* variant: the list of suggestions without the cut to five items
suggestions_of_uncut(outcome, files) ==
    IF outcome.json # "list" THEN fallback_suggestions(files)
    ELSE LET dicts == SelectSeq(outcome.items, LAMBDA item : item # ScalarItem)
             built == [i \in DOMAIN dicts |-> Suggestion(dicts[i])]
         IN IF \E i \in DOMAIN built : built[i].severity \notin Levels
            THEN fallback_suggestions(files)
            ELSE IF built # <<>> THEN built
            ELSE fallback_suggestions(files)

\* _generate_suggestions once generate has returned or raised
suggestions_of(outcome, files) ==
    IF outcome.json # "list" THEN fallback_suggestions(files)
    ELSE LET dicts == SelectSeq(Take(outcome.items, 5),
                                LAMBDA item : item # ScalarItem)
             built == [i \in DOMAIN dicts |-> Suggestion(dicts[i])]
         IN IF \E i \in DOMAIN built : built[i].severity \notin Levels
            THEN fallback_suggestions(files)
            ELSE IF built # <<>> THEN built
            ELSE fallback_suggestions(files)

\* the sum over the files of additions + deletions
RECURSIVE Size(_)
Size(files) ==
    IF files = <<>> THEN 0
    ELSE Get(files[1], "additions", 0) + Get(files[1], "deletions", 0)
         + Size(Tail(files))

Smaller(a, b) == IF a < b THEN a ELSE b
Clamp(v) == IF v < 0 THEN 0 ELSE Smaller(1000, v)

\* _score_pr, in hundredths
_score_pr(files, suggestions) ==
    LET size == Size(files)
        tests_touched ==
            \E i \in DOMAIN files :
               Contains(lower(Get(files[i], "filename", <<>>)),
                        <<"t", "e", "s", "t">>)
        severe_findings ==
            Cardinality({i \in DOMAIN suggestions : suggestions[i].severity = s_high})
        large == IF size > 400 THEN 80 ELSE 0
        correctness ==
            Clamp((IF tests_touched THEN 850 ELSE 720)
                  - Smaller(150, severe_findings * 50))
        readability == Clamp(800 - large)
        maintainability ==
            Clamp(780 - large - Smaller(100, severe_findings * 30))
    IN [correctness |-> correctness,
        readability |-> readability,
        maintainability |-> maintainability,
        overall |-> (2 * (correctness + readability + maintainability) + 3) \div 6,
        advisory_only |-> TRUE]

\* the templated summary of _generate_pr_summary
fallback_pr_summary(event, category, files) ==
    LET file_names == Filenames(Take(files, 20))
    IN [generated |-> FALSE,
        category |-> category,
        title |-> IF event.pr_title \in {NoText, <<>>}
                  THEN <<"U", "n", "t", "i", "t", "l", "e", "d", " ", "P", "R">>
                  ELSE event.pr_title,
        file_list_available |-> file_names # <<>>,
        major_files |-> Take(file_names, 5)]

\* the FileChangeSummary of one file of _summarize_files
file_summary(item, outcome) ==
    LET path == Get(item, "filename", <<"u", "n", "k", "n", "o", "w", "n">>)
        status == Get(item, "status", "modified")
        additions == Get(item, "additions", 0)
        deletions == Get(item, "deletions", 0)
        failed == outcome = GenerateFails
    IN [path |-> path,
        status |-> status,
        additions |-> additions,
        deletions |-> deletions,
        summary |-> IF failed
                    THEN [generated |-> FALSE, path |-> path, status |-> status,
                          additions |-> additions, deletions |-> deletions]
                    ELSE [generated |-> TRUE, text |-> strip(outcome)],
        risk |-> IF failed
                 THEN IF additions + deletions > 250 THEN s_high
                      ELSE IF additions + deletions > 80 THEN s_medium
                      ELSE s_low
                 ELSE IF Contains(lower(outcome), s_high) THEN s_high
                      ELSE IF Contains(lower(outcome), s_medium) THEN s_medium
                      ELSE s_low]

Call(section, failed) == [section |-> section, failed |-> failed]

ReviewUnchanged ==
    UNCHANGED <<webhook_events, delivery_logs, installation_settings,
                review_runs, queue, running, workers, requests, replays,
                responses, effects, counters, config, keyvars, tqvars,
                llmvars, artifacts>>

\* the call and its synchronous start: the check of the event and, for an
\* event without installation, the empty file list and the category
build_pr_review(event) ==
    /\ review.pc = "idle"
    /\ review' =
          IF event.repository_full_name \in {None, ""} \/ event.pr_number = None
          THEN [review EXCEPT !.pc = "raised", !.event = event,
                              !.exc = "ValueError"]
          ELSE IF event.installation_id = None
          THEN [review EXCEPT
                   !.pc = "pr_summary", !.event = event, !.files = <<>>,
                   !.category =
                       _categorize_pr(IF event.pr_title = NoText THEN <<>>
                                      ELSE event.pr_title, <<>>)]
          ELSE [review EXCEPT !.pc = "load_pr_files", !.event = event]
    /\ ReviewUnchanged

\* _load_pr_files: the listing, or no file when the code host call fails
load_pr_files ==
    /\ review.pc = "load_pr_files"
    /\ \E failed \in BOOLEAN, listing \in FileLists :
          /\ failed => listing = <<>>
          /\ review' =
                [review EXCEPT
                    !.pc = "pr_summary",
                    !.files = listing,
                    !.calls = Append(@, Call("files", failed)),
                    !.category =
                        _categorize_pr(IF review.event.pr_title = NoText
                                       THEN <<>> ELSE review.event.pr_title,
                                       listing)]
    /\ ReviewUnchanged

\* _generate_pr_summary
generate_pr_summary ==
    /\ review.pc = "pr_summary"
    /\ \E outcome \in GenerateOutcomes :
          review' =
             [review EXCEPT
                 !.pc = IF Take(review.files, 25) = <<>> THEN "suggestions"
                        ELSE "file_summaries",
                 !.calls = Append(@, Call("pr_summary", outcome = GenerateFails)),
                 !.pr_summary =
                     IF outcome = GenerateFails
                     THEN fallback_pr_summary(review.event, review.category,
                                              review.files)
                     ELSE [generated |-> TRUE, text |-> outcome]]
    /\ ReviewUnchanged

\* a generate call of _summarize_files whose exception is not caught
summarize_files_uncaught ==
    /\ review.pc = "file_summaries"
    /\ \E outcome \in GenerateOutcomes :
          LET item == review.files[Len(review.file_summaries) + 1]
              summaries == Append(review.file_summaries,
                                  file_summary(item, outcome))
          IN review' =
                IF outcome = GenerateFails
                THEN [review EXCEPT
                         !.pc = "raised", !.exc = "RuntimeError",
                         !.calls = Append(@, Call("file_summaries", TRUE))]
                ELSE [review EXCEPT
                         !.pc = IF Len(summaries) = Len(Take(review.files, 25))
                                THEN "suggestions" ELSE "file_summaries",
                         !.calls = Append(@, Call("file_summaries", FALSE)),
                         !.file_summaries = summaries]
    /\ ReviewUnchanged

\* _summarize_files: the generate call for the next file
summarize_files ==
    /\ review.pc = "file_summaries"
    /\ \E outcome \in GenerateOutcomes :
          LET item == review.files[Len(review.file_summaries) + 1]
              summaries == Append(review.file_summaries,
                                  file_summary(item, outcome))
          IN review' =
                [review EXCEPT
                    !.pc = IF Len(summaries) = Len(Take(review.files, 25))
                           THEN "suggestions" ELSE "file_summaries",
                    !.calls = Append(@, Call("file_summaries",
                                             outcome = GenerateFails)),
                    !.file_summaries = summaries]
    /\ ReviewUnchanged

\* _generate_suggestions, then _score_pr and the ReviewResult, which await
\* nothing
generate_suggestions ==
    /\ review.pc = "suggestions"
    /\ \E reply \in {GenerateFails} \cup RawReplies :
          LET outcome == IF reply = GenerateFails THEN [json |-> "raise"]
                         ELSE loads(_extract_json(reply))
              suggestions == suggestions_of(outcome, review.files)
              names == Filenames(Take(review.files, 5))
          IN review' =
                [review EXCEPT
                    !.pc = "returned",
                    !.reply = reply,
                    !.calls = Append(@, Call("suggestions",
                                             outcome.json = "raise")),
                    !.result =
                        [category |-> review.category,
                         pr_summary |-> review.pr_summary,
                         major_files |-> names,
                         file_summaries |-> review.file_summaries,
                         suggestions |-> suggestions,
                         score_card |-> _score_pr(review.files, suggestions),
                         sources |-> [i \in DOMAIN review.file_summaries |->
                                         review.file_summaries[i].path],
                         model_used |-> "model"]]
    /\ ReviewUnchanged

ReviewNext ==
    \/ \E event \in ReviewEvents : build_pr_review(event)
    \/ load_pr_files
    \/ generate_pr_summary
    \/ summarize_files
    \/ generate_suggestions

ReviewServiceInit ==
    /\ AppInit
    /\ deliveries = {PullRequestOpened}
    /\ TaskQueueInit(queue_workers)
    /\ LlmInit(<<HealthyProvider>>)
    /\ ReviewInit

ReviewSpec == ReviewServiceInit /\ [][ReviewNext]_vars

(***************************************************************************)
(* The normalizers on their own.  The payload of a delivery is drawn by    *)
(* shape: each sub-object is missing, null, an empty object or an object   *)
(* with its fields; action and timestamp are missing or present.  The      *)
(* normalizer is applied to the payload as the code reads it, sub-object   *)
(* by sub-object: .get on a sub-object that is null raises AttributeError. *)
(***************************************************************************)
PayloadShapes ==
    LET Shapes == {"missing", "null", "empty", "full"}
    IN
    [platform : {"github"}, event_type : {"pull_request", "unknown"},
     action : {"missing", "opened"},
     timestamp : {"missing", "2024-01-01T00:00:00Z", "soon", "int:7"},
     repository : Shapes, pull_request : Shapes, issue : {"missing", "full"},
     sender : {"missing", "null", "full"}, installation : {"missing", "full"}]
    \cup
    [platform : {"gitlab"}, event_type : GitlabEventTypes,
     timestamp : {"missing", "2024-01-01T00:00:00Z", "soon"},
     project : Shapes, object_attributes : Shapes, user : Shapes]

\* variant: sub-objects read by index, payload["repository"]
payload_of_indexed(p) ==
    LET objects == DOMAIN p \ {"platform", "event_type", "action", "timestamp"}
    IN IF \E o \in objects : p[o] \in {"null", "missing"}
       THEN [raised |-> "KeyError"]
       ELSE <<>>

\* payload.get("repository", {}) and the other sub-objects, then the reads
\* of their fields, named as the flat payload names them
payload_of(p) ==
    LET objects == DOMAIN p \ {"platform", "event_type", "action", "timestamp"}
        Fields(shape, full) == IF shape = "full" THEN full ELSE <<>>
        stamp == IF p.timestamp # "missing" THEN [timestamp |-> p.timestamp]
                 ELSE <<>>
    IN IF \E o \in objects : p[o] = "null" THEN [raised |-> "AttributeError"]
       ELSE IF p.platform = "github"
       THEN (IF p.action = "missing" THEN <<>> ELSE [action |-> p.action])
            @@ stamp
            @@ Fields(p.pull_request,
                      [pr_number |-> "n1", pr_title |-> "Fix", head_sha |-> "sha1",
                       timestamp |-> "2024-01-01T00:00:00Z"])
            @@ Fields(p.issue, [issue_number |-> "n2", issue_title |-> "Bug"])
            @@ Fields(p.repository,
                      [repository_id |-> "r1", repository_owner |-> "o",
                       repository_name |-> "r", repository_full_name |-> "o/r"])
            @@ Fields(p.sender, [sender_login |-> "dev"])
            @@ Fields(p.installation, [installation_id |-> "i1"])
       ELSE stamp
            @@ Fields(p.object_attributes,
                      [action |-> "open", iid |-> "n1", title |-> "Fix",
                       last_commit_id |-> "sha1"])
            @@ Fields(p.project,
                      [project_id |-> "r1", namespace |-> "o", name |-> "r",
                       path_with_namespace |-> "o/r"])
            @@ Fields(p.user, [username |-> "dev"])

normalize_call(p) ==
    /\ key_in = <<>>
    /\ key_in' = <<p>>
    /\ LET payload == payload_of(p)
       IN key_out' =
             <<IF "raised" \in DOMAIN payload THEN payload
               ELSE normalize([platform |-> p.platform, delivery_id |-> "d1",
                               event_type |-> p.event_type, payload |-> payload])>>
    /\ UNCHANGED <<webhook_events, delivery_logs, installation_settings,
                   review_runs, queue, running, workers, requests, replays,
                   responses, effects, counters, config, tqvars, llmvars,
                   reviewvars>>

NormalizerNext == \E p \in PayloadShapes : normalize_call(p)

NormalizerSpec == ReviewServiceInit /\ [][NormalizerNext]_vars

(***************************************************************************)
(* Properties.                                                             *)
(***************************************************************************)
\* the webhook calls with the key that have looked it up and not answered
InFlight(key) == {r \in BagToSet(requests) : r.key = key}

\* the committed runs of a ledger entry, each counted as often as stored
RunCount(id) ==
    LET of_entry == {r \in BagToSet(review_runs) : r.delivery_log_id = id}
        RECURSIVE Sum(_)
        Sum(rs) == IF rs = {} THEN 0
                   ELSE LET r == CHOOSE x \in rs : TRUE
                        IN CopiesIn(r, review_runs) + Sum(rs \ {r})
    IN Sum(of_entry)

\* the run the processor records for a ledger entry (settings rows are
\* stored with the defaults)
RouteOfEntry(id) ==
    route_of(delivery_logs[id].normalized_event, default_feature_flags)

Terminal == {"done", "failed"}

\* C1: a webhook call made after a call with the same key was answered is
\* answered accepted with duplicate=true, inserts no raw event and no ledger
\* row, enqueues nothing; the key then has exactly one ledger row, enqueued
\* at most once, and exactly once as soon as no call with the key is still
\* in flight.
C1_SequentialDuplicate ==
    [][\A r \in responses' \ responses :
          (r.op = "webhook" /\ r.prior) =>
             /\ r.status = "accepted"
             /\ r.duplicate
             /\ r.log_id = 0
             /\ webhook_events' = webhook_events
             /\ delivery_logs' = delivery_logs
             /\ queue' = queue
             /\ effects' = effects
             /\ Cardinality(LogsWithKey(r.key)) = 1
             /\ \A id \in LogsWithKey(r.key) :
                   /\ effects[id].enqueued <= 1
                   /\ InFlight(r.key) = {} => effects[id].enqueued = 1]_vars

C1_Witness ==
    \E r \in responses :
       /\ r.op = "webhook" /\ r.prior /\ r.duplicate
       /\ \E first \in responses :
             /\ first.op = "webhook" /\ first.key = r.key
             /\ ~first.duplicate /\ first.status = "accepted"
       /\ \A id \in LogsWithKey(r.key) : effects[id].enqueued = 1

\* C2: however two webhook calls carrying the same GitHub delivery
\* interleave, the key has at most one ledger row, enqueued at most once,
\* with at most one ReviewRun and at most one posted comment; once the row
\* of a reviewed pull request is done it has exactly one run, which is done,
\* and exactly one comment call, posted unless the code host refused it.
C2_ConcurrentIngestionOnce ==
    \A d \in deliveries :
       d.platform = "github" =>
          /\ Cardinality(LogsWithKey(key_of(d))) <= 1
          /\ \A id \in LogsWithKey(key_of(d)) :
                /\ effects[id].enqueued <= 1
                /\ RunCount(id) <= 1
                /\ effects[id].comments <= 1
                /\ (/\ delivery_logs[id].status = "done"
                    /\ RouteOfEntry(id) = "pull_request_review")
                   => /\ RunCount(id) = 1
                      /\ BagIn(Run(id, "pull_request_review", "done"), review_runs)
                      /\ effects[id].comments + effects[id].comment_errors = 1

C2_Witness ==
    \E r \in responses, id \in DOMAIN delivery_logs :
       /\ r.op = "webhook" /\ r.status = "error" /\ ~r.prior
       /\ r.key = key_of(PullRequestOpened)
       /\ delivery_logs[id].idempotency_key = r.key
       /\ delivery_logs[id].status = "done"
       /\ Len(webhook_events) = 2
       /\ RunCount(id) = 1
       /\ effects[id].comments = 1

\* C3: no two workers are inside process_delivery_log for the same ledger
\* entry at the same time.
C3_AtMostOneWorkerPerEntry ==
    \A v, w \in Workers :
       (v # w /\ workers[v].pc # "idle" /\ workers[w].pc # "idle")
          => workers[v].delivery_log_id # workers[w].delivery_log_id

C3_Witness ==
    \E v, w \in Workers :
       /\ v # w
       /\ workers[v].pc \notin {"idle", "load"}
       /\ workers[w].pc \notin {"idle", "load"}
       /\ delivery_logs[workers[v].delivery_log_id].webhook_event_id
            = delivery_logs[workers[w].delivery_log_id].webhook_event_id

\* C4: every ledger entry, created queued by a webhook call or a replay,
\* eventually is done or failed.
C4_NoEventLost ==
    \A id \in 1..(MaxRequests + MaxReplays) :
       (id \in DOMAIN delivery_logs)
          ~> (id \in DOMAIN delivery_logs /\ delivery_logs[id].status \in Terminal)

C4_Witness ==
    \E a, b \in DOMAIN delivery_logs :
       /\ delivery_logs[a].status = "done"
       /\ delivery_logs[b].status = "failed"
       /\ delivery_logs[b].delivery_id = "replay-" \o ToString(delivery_logs[a].webhook_event_id)

\* C5: a handler call that loads a ledger entry whose status is done
\* returns at once: no table changes, nothing is enqueued, no call to the
\* code host is made.
C5_DoneEntryUntouched ==
    [][\A w \in Workers :
          (/\ workers[w].pc = "load"
           /\ workers'[w] # workers[w]
           /\ workers[w].delivery_log_id \in DOMAIN delivery_logs
           /\ delivery_logs[workers[w].delivery_log_id].status = "done")
          => /\ workers'[w] = IdleWorker
             /\ delivery_logs' = delivery_logs
             /\ webhook_events' = webhook_events
             /\ installation_settings' = installation_settings
             /\ review_runs' = review_runs
             /\ queue' = queue
             /\ effects' = [effects EXCEPT
                               ![workers[w].delivery_log_id].skipped = @ + 1]]_vars

C5_Witness ==
    \E id \in DOMAIN delivery_logs :
       /\ effects[id].skipped = 1
       /\ effects[id].enqueued = 2
       /\ delivery_logs[id].status = "done"
       /\ \A w \in Workers : workers[w].pc = "idle"

\* C6: an exception raised inside _process is caught by
\* process_delivery_log: the worker goes on to load the entry and to commit
\* it failed with the message of the exception, and is back in its loop.
C6_DispatchExceptionRecorded ==
    [][\A w \in Workers :
          LET id == workers[w].delivery_log_id
          IN /\ (workers[w].exc = None /\ workers'[w].exc # None)
                => /\ workers'[w].pc = "fail_load"
                   /\ workers'[w].delivery_log_id = id
             /\ (workers[w].pc = "fail_load" /\ workers'[w] # workers[w])
                => /\ workers'[w].pc = "mark_failed"
                   /\ workers'[w].exc = workers[w].exc
             /\ (workers[w].pc = "mark_failed" /\ workers'[w] # workers[w])
                => /\ delivery_logs'[id].status = "failed"
                   /\ delivery_logs'[id].error_message = workers[w].exc
                   /\ workers[w].exc # None
                   /\ workers'[w] = IdleWorker]_vars

C6_Witness ==
    \E a, b \in DOMAIN delivery_logs :
       /\ delivery_logs[a].status = "failed"
       /\ delivery_logs[a].error_message = "ValueError"
       /\ delivery_logs[b].status = "failed"
       /\ delivery_logs[b].error_message = "IntegrityError"
       /\ \A w \in Workers : workers[w].pc = "idle"

\* C7: a worker that reaches the end of _process without an exception
\* commits the entry done and returns, whatever the event and the flags;
\* an entry whose handler has returned without an exception is done.
C7_CompletedDispatchIsDone ==
    [][\A w \in Workers :
          (/\ workers[w].pc \notin {"idle", "load", "fail_load", "mark_failed"}
           /\ workers'[w].pc = "idle")
          => /\ workers[w].pc = "finish"
             /\ delivery_logs'[workers[w].delivery_log_id].status = "done"]_vars

C7_Witness ==
    \E a, b \in DOMAIN delivery_logs :
       /\ delivery_logs[a].status = "done"
       /\ RouteOfEntry(a) = "none"
       /\ RunCount(a) = 0
       /\ delivery_logs[b].status = "done"
       /\ RouteOfEntry(b) = "pull_request_review"

\* C8: the status of a ledger entry changes only from queued to processing
\* and from processing to done or failed; a done or failed entry keeps its
\* status, and no entry is removed.
C8_StatusMonotone ==
    [][/\ Len(delivery_logs') >= Len(delivery_logs)
       /\ \A id \in DOMAIN delivery_logs :
             LET old == delivery_logs[id].status
                 new == delivery_logs'[id].status
             IN old # new =>
                   \/ old = "queued" /\ new = "processing"
                   \/ old = "processing" /\ new \in Terminal]_vars

C8_Witness ==
    \E a, b \in DOMAIN delivery_logs :
       /\ a < b
       /\ delivery_logs[a].webhook_event_id = delivery_logs[b].webhook_event_id
       /\ delivery_logs[a].status = "failed"
       /\ delivery_logs[b].status = "done"
       /\ effects[a].enqueued = 1

\* C9: no two ledger entries have the same idempotency_key.
C9_KeysUnique ==
    \A a, b \in DOMAIN delivery_logs :
       delivery_logs[a].idempotency_key = delivery_logs[b].idempotency_key
          => a = b

C9_Witness ==
    /\ \E r \in responses : r.op = "replay" /\ r.status = "error"
    /\ \E r \in responses : r.op = "webhook" /\ r.status = "error"
    /\ Len(delivery_logs) >= 2

\* C10: equal inputs of the key function give equal keys, and two inputs
\* that differ in exactly one of platform, delivery_id, event_type and
\* action give different keys.
C10_KeySeparates ==
    key_in # <<>> =>
       /\ key_in[1] = key_in[2] => key_out[1] = key_out[2]
       /\ Cardinality(Differing(key_in[1], key_in[2])) = 1
             => key_out[1] # key_out[2]

C10_Witness ==
    /\ key_in # <<>>
    /\ Differing(key_in[1], key_in[2]) = {4}
    /\ key_in[1][3] = ":"
    /\ key_in[1][4] = ""
    /\ key_in[2][4] = ":"
    /\ key_out[1] # key_out[2]

\* C11: every job in the queue, and every job a worker has taken, carries
\* the handler name of the processor and the id of a committed ledger entry;
\* a job is put on the queue only for an entry committed before the step.
C11_JobsReferenceLedger ==
    /\ \A i \in DOMAIN queue :
          /\ queue[i].name = "process_delivery_log"
          /\ queue[i].delivery_log_id \in DOMAIN delivery_logs
    /\ \A w \in Workers :
          workers[w].pc # "idle" => workers[w].delivery_log_id \in DOMAIN delivery_logs

C11_Witness ==
    /\ Len(queue) = 2
    /\ delivery_logs[queue[1].delivery_log_id].delivery_id = "d1"
    /\ delivery_logs[queue[2].delivery_log_id].delivery_id = "replay-1"
    /\ \E w \in Workers : workers[w].pc = "mark_processing"

\* the journal entries of jobs taken from the queue
Takes == {p \in DOMAIN journal : journal[p].ev \in {"run", "drop"}}

\* C12: when a handler raises, the job is not put back on the queue and is
\* never run again, the task that ran it is waiting in queue.get() again,
\* ready for the next job, and no other task is affected.
C12_HandlerExceptionContained ==
    [][(journal' # journal /\ journal'[Len(journal')].ev = "raise") =>
          LET t == journal'[Len(journal')].task
              job == journal'[Len(journal')].job
          IN /\ _worker_tasks[t].job = job
             /\ _worker_tasks' = [_worker_tasks EXCEPT ![t] = WaitingTask]
             /\ _queue' = _queue
             /\ \A i \in DOMAIN _queue : _queue[i].id # job
             /\ Cardinality({p \in Takes : journal[p].job = job}) = 1]_vars

C12_Witness ==
    \E p, q, r \in DOMAIN journal :
       /\ p < q /\ q < r
       /\ journal[p].ev = "raise"
       /\ journal[q].ev = "run" /\ journal[q].task = journal[p].task
       /\ journal[q].job > journal[p].job
       /\ journal[r].ev = "return" /\ journal[r].job = journal[q].job
       /\ ~\E s \in DOMAIN journal : journal[s].ev = "abandon"

\* C13: a job whose name has no registered handler is taken off the queue
\* and dropped: the task stays waiting for the next job, the job is not on
\* the queue afterwards, and the journal never shows it run or taken again.
C13_UnregisteredJobDropped ==
    [][/\ (journal' # journal /\ journal'[Len(journal')].ev = "drop") =>
             /\ Head(_queue).id = journal'[Len(journal')].job
             /\ Head(_queue).name \notin _handlers
             /\ _queue' = Tail(_queue)
             /\ _worker_tasks' = _worker_tasks
             /\ _worker_tasks[journal'[Len(journal')].task] = WaitingTask
       /\ \A p \in DOMAIN journal :
             journal[p].ev = "drop" =>
                /\ \A q \in DOMAIN journal' :
                      journal'[q].job = journal[p].job => q = p
                /\ \A i \in DOMAIN _queue' : _queue'[i].id # journal[p].job]_vars

C13_Witness ==
    \E p, q \in DOMAIN journal :
       /\ p < q
       /\ journal[p].ev = "drop"
       /\ journal[q].ev = "run" /\ journal[q].task = journal[p].task
       /\ n_calls = 1

\* C14: jobs leave the queue in the order they were enqueued, and with one
\* worker a job is taken only after the handler of the job taken before it
\* has returned, raised or been cancelled.
C14_Fifo ==
    /\ \A p, q \in Takes : p < q => journal[p].job < journal[q].job
    /\ \A i, j \in DOMAIN _queue : i < j => _queue[i].id < _queue[j].id
    /\ \A p \in Takes : \A i \in DOMAIN _queue : journal[p].job < _queue[i].id
    /\ _workers = 1 =>
          \A p \in DOMAIN journal :
             (journal[p].ev = "run" /\ p < Len(journal)) =>
                /\ journal[p + 1].ev \in {"return", "raise", "abandon"}
                /\ journal[p + 1].job = journal[p].job

C14_Witness ==
    /\ _workers = 1
    /\ Len(journal) = 4
    /\ journal[1].ev = "run" /\ journal[1].job = 1
    /\ journal[2].ev = "raise"
    /\ journal[3].ev = "run" /\ journal[3].job = 2
    /\ journal[4].ev = "return"
    /\ Len(_queue) = 1

\* C15: the queue has at least one worker configured; when no stop() is in
\* progress the live worker loops, and the tasks listed in _worker_tasks,
\* are exactly _workers while running and none otherwise.
C15_WorkerCount ==
    /\ _workers >= 1
    /\ Cardinality(Live(_worker_tasks)) <= _workers
    /\ ~stopping =>
          /\ Cardinality(Live(_worker_tasks)) = (IF _running THEN _workers ELSE 0)
          /\ Len(_worker_tasks) = (IF _running THEN _workers ELSE 0)

C15_Witness ==
    /\ n_calls = 3
    /\ _running
    /\ ~stopping
    /\ Cardinality(Live(_worker_tasks)) = 2
    /\ \E p \in DOMAIN journal : journal[p].ev = "abandon"

\* C16: generate and embed_text call the providers in list order, each at
\* most once and only after every earlier one has failed; the call returns
\* the result of the first provider that succeeds, and when all have failed
\* it raises RuntimeError whose cause is the failure of the last provider.
C16_FirstSuccessInOrder ==
    llm.op \in {"generate", "embed_text"} =>
       /\ llm.calls = [k \in 1..Len(llm.calls) |-> k]
       /\ \A k \in 1..Len(llm.calls) :
             k < Len(llm.calls) => ~_providers[k][llm.op]
       /\ llm.status = "pending" =>
             \A k \in 1..Len(llm.calls) : ~_providers[k][llm.op]
       /\ llm.status = "returned" =>
             /\ _providers[Len(llm.calls)][llm.op]
             /\ llm.value = ResultOf(Len(llm.calls))
       /\ llm.status = "raised" =>
             /\ Len(llm.calls) = Len(_providers)
             /\ \A k \in DOMAIN _providers : ~_providers[k][llm.op]
             /\ llm.value = "RuntimeError"
             /\ llm.cause = FailureOf(Len(_providers))

C16_Witness ==
    /\ llm.op = "generate"
    /\ llm.status = "raised"
    /\ llm.calls = <<1, 2>>
    /\ llm.cause = FailureOf(2)

\* C17 (as claimed): once a provider has failed after yielding a token, no
\* token of a later provider is emitted: all tokens handed to the consumer
\* come from one provider.
C17_StreamStopsAfterPartialOutput ==
    llm.op = "stream_generate" =>
       \A p, q \in DOMAIN llm.out : llm.out[p].provider = llm.out[q].provider

\* the stream of the first provider failed after its first token and the
\* consumer received the tokens of the second provider after it
C17_Restreamed ==
    /\ llm.op = "stream_generate"
    /\ llm.status = "returned"
    /\ Len(_providers) = 2
    /\ _providers[1].tokens = 1 /\ ~_providers[1].completes
    /\ llm.out = <<Token(1, 1), Token(2, 1)>>

\* C18: a provider whose stream fails before its first token is followed by
\* the next provider, nothing being emitted for it; when the generator
\* returns, the tokens of the first provider that streams to completion
\* are the end of the output, complete and in order; when every provider
\* fails, RuntimeError is raised.
C18_StreamFallsThrough ==
    llm.op = "stream_generate" =>
       /\ llm.calls = [k \in 1..Len(llm.calls) |-> k]
       /\ \A k \in 1..Len(llm.calls) :
             (k < llm.i) =>
                /\ ~_providers[k].completes
                /\ _providers[k].tokens = 0 =>
                      \A p \in DOMAIN llm.out : llm.out[p].provider # k
       /\ llm.status = "returned" =>
             LET n == _providers[llm.i].tokens
                 m == Len(llm.out)
             IN /\ _providers[llm.i].completes
                /\ m >= n
                /\ \A k \in 1..n : llm.out[m - n + k] = Token(llm.i, k)
       /\ (llm.status # "pending" /\ \A k \in DOMAIN _providers : ~_providers[k].completes)
             => /\ llm.status = "raised"
                /\ llm.value = "RuntimeError"
                /\ llm.calls = [k \in DOMAIN _providers |-> k]
       /\ llm.status = "raised" => \A k \in DOMAIN _providers : ~_providers[k].completes

C18_Witness ==
    /\ llm.op = "stream_generate"
    /\ llm.status = "returned"
    /\ _providers[1].tokens = 0
    /\ llm.calls = <<1, 2>>
    /\ llm.out = <<Token(2, 1), Token(2, 2)>>

\* C19 (as claimed): a replay call for an event that has a ledger entry of
\* the installation appends one ledger entry, queued, with a key no earlier
\* entry has, the platform, event and normalized event of the source, and
\* leaves every earlier entry as it was; the call then enqueues one job,
\* for the new entry.  (A call for an event without such an entry is
\* answered not found and changes nothing.)
C19_ReplayCreatesFreshEntry ==
    [][/\ n_replays' # n_replays =>
             \/ /\ delivery_logs' = delivery_logs
                /\ queue' = queue
                /\ \A r \in responses' \ responses : r.status = "not_found"
                /\ \A r \in responses' :
                      (r.op = "replay" /\ r.status # "not_found") => r \in responses
             \/ LET new == delivery_logs'[Len(delivery_logs')]
                IN /\ Len(delivery_logs') = Len(delivery_logs) + 1
                   /\ \A id \in DOMAIN delivery_logs :
                         /\ delivery_logs'[id] = delivery_logs[id]
                         /\ delivery_logs[id].idempotency_key # new.idempotency_key
                   /\ new.status = "queued"
                   /\ \E id \in DOMAIN delivery_logs :
                         /\ new.webhook_event_id = delivery_logs[id].webhook_event_id
                         /\ new.normalized_event = delivery_logs[id].normalized_event
                         /\ new.platform = delivery_logs[id].platform
                   /\ BagIn(Len(delivery_logs'), replays')
       /\ (n_replays' = n_replays /\ replays' # replays) =>
             \E id \in DOMAIN delivery_logs :
                /\ replays = Put(replays', id)
                /\ queue' = Append(queue,
                       [name |-> "process_delivery_log", delivery_log_id |-> id])
                /\ effects[id].enqueued = 0
                /\ delivery_logs' = delivery_logs]_vars

\* a second replay of the event, made at the instant of the first, derived
\* the key the first had stored and was refused
C19_ReplayRefused ==
    /\ Len(delivery_logs) = 2
    /\ delivery_logs[2].delivery_id = "replay-1"
    /\ n_replays = 2
    /\ \E r \in responses :
          /\ r.op = "replay" /\ r.status = "error"
          /\ r.key = delivery_logs[2].idempotency_key

\* the generate calls made for the files, in order
FileCalls == SelectSeq(review.calls, LAMBDA c : c.section = "file_summaries")

\* C20: a build_pr_review call for an event with repository name and pull
\* request number never ends in an exception, whatever generate calls
\* raise; the ReviewResult it returns has a summary, a file summary for
\* every listed file, suggestions and a scorecard, and each section whose
\* generate call raised has its heuristic value.
C20_GenerationFailureContained ==
    (/\ review.pc # "idle"
     /\ Truthy(review.event.repository_full_name)
     /\ review.event.pr_number # None) =>
        /\ review.pc # "raised"
        /\ review.pc = "returned" =>
              LET r == review.result
                  files == review.files
              IN /\ r.category \in REVIEW_CATEGORIES
                 /\ r.pr_summary.generated \in BOOLEAN
                 /\ Len(r.file_summaries) = Len(files)
                 /\ Len(FileCalls) = Len(files)
                 /\ r.suggestions # <<>>
                 /\ \A i \in DOMAIN r.suggestions :
                       r.suggestions[i].severity \in Levels
                 /\ r.score_card = _score_pr(files, r.suggestions)
                 /\ \A c \in DOMAIN review.calls :
                       (/\ review.calls[c].section = "pr_summary"
                        /\ review.calls[c].failed) =>
                           r.pr_summary =
                               fallback_pr_summary(review.event, r.category, files)
                 /\ \A k \in DOMAIN FileCalls :
                       FileCalls[k].failed =>
                           r.file_summaries[k] =
                               file_summary(files[k], GenerateFails)
                 /\ \A c \in DOMAIN review.calls :
                       (/\ review.calls[c].section = "suggestions"
                        /\ review.calls[c].failed) =>
                           r.suggestions = fallback_suggestions(files)

\* a review of two files returned although the summary call, both file
\* calls and the suggestions call raised
C20_Witness ==
    /\ review.pc = "returned"
    /\ Len(review.files) = 2
    /\ Len(review.calls) = 5
    /\ \A c \in DOMAIN review.calls :
          review.calls[c].section # "files" => review.calls[c].failed
    /\ ~review.result.pr_summary.generated
    /\ Len(review.result.suggestions) = 2

\* C21: the suggestions generated from a reply are at most 5, and they are
\* the first dictionaries of the list when the reply is a well-formed JSON
\* list of which the first five items give one; they are exactly the two
\* fixed suggestions "Validate edge cases" and "Add or update tests" when
\* the provider raises, when the text it returns does not parse (no JSON
\* value is got from it, code fence and surrounding prose set aside), or
\* when no item among the first five is a dictionary.
C21_SuggestionsCappedOrFallback ==
    review.pc = "returned" =>
       LET suggestions == review.result.suggestions
           raised == review.reply = GenerateFails
           parsed == loads(_extract_json(review.reply))
           plain == loads(review.reply)
           Usable(items) ==
               {i \in DOMAIN items : i <= 5 /\ items[i] # ScalarItem}
           fixed ==
               /\ Len(suggestions) = 2
               /\ suggestions[1].title = "Validate edge cases"
               /\ suggestions[2].title = "Add or update tests"
               /\ suggestions[1].severity = s_medium
               /\ suggestions[2].severity = s_medium
       IN /\ Len(suggestions) <= 5
          /\ Len(suggestions) >= 1
          /\ raised => fixed
          /\ (~raised /\ parsed.json # "list") => fixed
          /\ (~raised /\ parsed.json = "list" /\ Usable(parsed.items) = {}) => fixed
          /\ (/\ ~raised
              /\ plain.json = "list"
              /\ Usable(plain.items) # {}
              /\ ~fixed) =>
                 /\ Len(suggestions) = Cardinality(Usable(plain.items))
                 /\ \A i \in DOMAIN suggestions :
                       suggestions[i].title \in {"Rename", "Review suggestion"}

\* a list of seven objects was returned and five suggestions were made of it
C21_Witness ==
    /\ review.pc = "returned"
    /\ review.reply # GenerateFails
    /\ loads(review.reply).json = "list"
    /\ Len(loads(review.reply).items) = 7
    /\ Len(review.result.suggestions) = 5

\* C22: the category of a review is the category of the first rule, in the
\* order fix, refactor, test, docs, chore, feature, that the title (or, for
\* docs, a docs/ path among the files) matches, and mixed when no rule
\* matches; so a title with a fix keyword and a feature keyword is a fix.
C22_FirstMatchWins ==
    review.pc \in {"pr_summary", "file_summaries", "suggestions", "returned"} =>
       LET title == lower(IF review.event.pr_title = NoText THEN <<>>
                          ELSE review.event.pr_title)
           paths == {lower(review.files[i].filename) : i \in DOMAIN review.files}
           Has(words) == \E w \in words : Contains(title, w)
           Matches(rule) ==
               CASE rule = 1 ->
                      Has({<<"f", "i", "x">>, <<"b", "u", "g">>,
                           <<"h", "o", "t", "f", "i", "x">>})
                 [] rule = 2 ->
                      Has({<<"r", "e", "f", "a", "c", "t", "o", "r">>,
                           <<"c", "l", "e", "a", "n", "u", "p">>})
                 [] rule = 3 ->
                      Has({<<"t", "e", "s", "t">>, <<"s", "p", "e", "c">>})
                 [] rule = 4 ->
                      \/ Has({<<"d", "o", "c", "s">>, <<"r", "e", "a", "d", "m", "e">>,
                              <<"d", "o", "c", "u", "m", "e", "n", "t", "a", "t", "i", "o", "n">>})
                      \/ \E p \in paths : Contains(p, <<"d", "o", "c", "s", "/">>)
                 [] rule = 5 ->
                      Has({<<"c", "h", "o", "r", "e">>, <<"c", "i">>,
                           <<"b", "u", "i", "l", "d">>, <<"d", "e", "p", "s">>})
                 [] rule = 6 ->
                      \E w \in {<<"a", "d", "d">>,
                                <<"i", "m", "p", "l", "e", "m", "e", "n", "t">>,
                                <<"i", "n", "t", "r", "o", "d", "u", "c", "e">>,
                                <<"c", "r", "e", "a", "t", "e">>,
                                <<"f", "e", "a", "t">>} : HasWord(title, w)
                 [] OTHER -> TRUE
           names == <<"fix", "refactor", "test", "docs", "chore", "feature", "mixed">>
           first == CHOOSE r \in 1..7 :
                       Matches(r) /\ \A q \in 1..(r - 1) : ~Matches(q)
       IN review.category = names[first]

\* the title "Fix add" has a fix keyword and a feature keyword and was
\* classified as a fix
C22_Witness ==
    /\ review.pc = "returned"
    /\ review.event.pr_title = <<"F", "i", "x", " ", "a", "d", "d">>
    /\ review.category = "fix"
    /\ review.result.category = "fix"

\* C23: the normalizer of either platform, given a payload without any of
\* its optional fields and sub-objects, raises nothing; every optional
\* field of the event is null, the action is "unknown", and occurred_at is
\* set (to the current time).
C23_MissingFieldsNormalize ==
    (/\ key_in # <<>>
     /\ \A f \in DOMAIN key_in[1] \ {"platform", "event_type"} :
           key_in[1][f] = "missing") =>
        LET event == key_out[1]
        IN /\ "raised" \notin DOMAIN event
           /\ event.platform = key_in[1].platform
           /\ event.action = "unknown"
           /\ \A f \in {"installation_id", "repository_id", "repository_owner",
                        "repository_name", "repository_full_name", "pr_number",
                        "pr_title", "issue_number", "issue_title",
                        "sender_login", "head_sha"} : event[f] = None
           /\ event.occurred_at = "now"
           /\ event.occurred_at # None
           /\ DOMAIN event.payload = {}

\* a GitLab payload with nothing in it was normalized
C23_Witness ==
    /\ key_in # <<>>
    /\ key_in[1].platform = "gitlab"
    /\ key_in[1].event_type = "Merge Request Hook"
    /\ \A f \in DOMAIN key_in[1] \ {"platform", "event_type"} :
          key_in[1][f] = "missing"
    /\ key_out[1].event_type = "merge request"
    /\ key_out[1].pr_number = None

\* C24: a call rejected at the boundary (signature missing or invalid,
\* GitLab token invalid, body not JSON, GitLab endpoint disabled) stores no
\* raw payload row and no ledger entry, enqueues no job and leaves no call
\* in progress.
C24_RejectedLeavesNoTrace ==
    [][(/\ n_requests' # n_requests
        /\ requests' = requests
        /\ \E r \in responses' :
              r.op = "rejected" /\ (r \notin responses \/ responses' = responses))
       => /\ webhook_events' = webhook_events
          /\ delivery_logs' = delivery_logs
          /\ queue' = queue
          /\ effects' = effects
          /\ review_runs' = review_runs]_vars

\* two calls were rejected, one for its signature or token and one for its
\* body, and the store and the queue are empty
C24_Witness ==
    /\ n_requests = 2
    /\ \E r \in responses : r.op = "rejected" /\ r.status = "401"
    /\ \E r \in responses : r.op = "rejected" /\ r.status = "400"
    /\ webhook_events = <<>>
    /\ delivery_logs = <<>>
    /\ queue = <<>>

C29_DoneHasRun ==
    \A id \in DOMAIN delivery_logs :
       delivery_logs[id].status = "done" => RunCount(id) >= 1

\* an entry of an event type without a handler is done and no run was
\* recorded for it
C29_DoneWithoutRun ==
    \E id \in DOMAIN delivery_logs :
       /\ delivery_logs[id].status = "done"
       /\ delivery_logs[id].normalized_event.event_type = "ping"
       /\ RouteOfEntry(id) = "none"
       /\ RunCount(id) = 0

\* C29, amended: a ledger entry that is done has a ReviewRun exactly when its
\* event leads to an action (a review, a pull request skipped for missing
\* metadata, an issue summary, a comment reply, the GitLab placeholder); an
\* event that leads to no action ends done with no ReviewRun at all.
C29_RunIffAction ==
    \A id \in DOMAIN delivery_logs :
       delivery_logs[id].status = "done"
          => IF RouteOfEntry(id) = "none"
             THEN RunCount(id) = 0
             ELSE RunCount(id) >= 1

\* C27: in every state of the store a pull-request run that is done has one
\* score card and one finding for each suggestion of its result, and a run
\* that is processing has no score card, no finding and no result.
C27_ArtifactsWithDone ==
    \A id \in DOMAIN delivery_logs :
       LET done == CopiesIn(Run(id, "pull_request_review", "done"), review_runs)
           results == {r \in BagToSet(run_results) : r.delivery_log_id = id}
       IN /\ done <= 1
          /\ CopiesIn(ScoreCardModel(id), score_cards) = done
          /\ Cardinality(results) = done
          /\ \A r \in results :
                /\ CopiesIn(r, run_results) = 1
                /\ CopiesIn(Finding(id), review_findings) = r.suggestions
          /\ done = 0 => CopiesIn(Finding(id), review_findings) = 0

\* a run is done and the same state holds its result of five suggestions,
\* five findings and one score card
C27_Witness ==
    \E id \in DOMAIN delivery_logs :
       /\ BagIn(Run(id, "pull_request_review", "done"), review_runs)
       /\ CopiesIn(Finding(id), review_findings) = 5
       /\ CopiesIn(ScoreCardModel(id), score_cards) = 1
       /\ \E r \in BagToSet(run_results) : r.delivery_log_id = id /\ r.suggestions = 5

\* C25 as stated: a ReviewRun is created and finalized without a partial
\* commit; the store never holds a pull_request_review run with status
\* processing.
C25_NoProcessingRunVisible ==
    \A r \in BagToSet(review_runs) :
       ~(r.run_type = "pull_request_review" /\ r.status = "processing")

\* C25, amended: the run is committed twice in one handling pass, first with
\* status processing and then with status done.  A pull_request_review run
\* that is processing in the store belongs to a pass that is between its two
\* commits, or to a pass that an exception ended there.
C25_ProcessingRunWithinPass ==
    \A r \in BagToSet(review_runs) :
       (r.run_type = "pull_request_review" /\ r.status = "processing")
          => \/ \E w \in Workers :
                   /\ workers[w].delivery_log_id = r.delivery_log_id
                   /\ workers[w].pc \in {"review", "fail_load", "mark_failed"}
             \/ delivery_logs[r.delivery_log_id].status = "failed"

\* the store holds a processing run of a pass that is building its review
\* while another worker is handling another entry
C25_ProcessingRunObserved ==
    \E w, v \in Workers :
       /\ workers[w].pc = "review"
       /\ BagIn(Run(workers[w].delivery_log_id, "pull_request_review", "processing"),
                review_runs)
       /\ workers[v].pc \notin {"idle", "load"}
       /\ workers[v].delivery_log_id # workers[w].delivery_log_id

\* C26: whenever a ledger entry is done or failed every ReviewRun of it is
\* done; no run is left processing by a pass that has ended, the pass that
\* ends in an exception included.
C26_TerminalRunsDone ==
    \A id \in DOMAIN delivery_logs :
       delivery_logs[id].status \in Terminal
          => \A r \in BagToSet(review_runs) :
                r.delivery_log_id = id => r.status = "done"

\* the pass has ended in an exception: the entry is failed, no worker holds
\* it, and its run is still processing
C26_FailedWithProcessingRun ==
    \E id \in DOMAIN delivery_logs :
       /\ delivery_logs[id].status = "failed"
       /\ delivery_logs[id].error_message = "ValueError"
       /\ \A w \in Workers : workers[w].delivery_log_id # id
       /\ BagIn(Run(id, "pull_request_review", "processing"), review_runs)
       /\ ~BagIn(Run(id, "pull_request_review", "done"), review_runs)

\* C30: a failure of a code-host call (listing the files of the pull
\* request, posting or updating a comment, creating the check run, applying
\* labels) is caught where the call is made: the pass goes on, the entry is
\* never failed and it is done once the pass has ended.
C30_CodeHostFailureContained ==
    \A id \in DOMAIN delivery_logs :
       (effects[id].file_list_errors + effects[id].comment_errors
           + effects[id].check_run_errors + effects[id].label_errors > 0)
          => /\ delivery_logs[id].status # "failed"
             /\ \A w \in Workers :
                   workers[w].delivery_log_id = id
                      => workers[w].pc \notin {"fail_load", "mark_failed"}
             /\ (\A w \in Workers : workers[w].delivery_log_id # id)
                   => delivery_logs[id].status = "done"

\* every code-host call of a reviewed pull request has failed and every call
\* of an opened issue has failed, and both entries are done
C30_Witness ==
    \E a, b \in DOMAIN delivery_logs :
       /\ effects[a].file_list_errors = 1
       /\ effects[a].comment_errors = 1
       /\ effects[a].check_run_errors = 1
       /\ delivery_logs[a].status = "done"
       /\ effects[b].label_errors = 1
       /\ effects[b].comment_errors = 1
       /\ delivery_logs[b].status = "done"

\* C31: for a created comment whose sender is a bot by type, whose sender
\* login ends with "[bot]", whose body is empty or whose body carries a
\* "<!-- fossmate:" marker, no reply is posted or attempted and no run is
\* recorded, under every setting of the flags; a reply of the assistant
\* carries its marker, so it is never answered.
C31_GuardedCommentIgnored ==
    \A id \in DOMAIN delivery_logs :
       LET event == delivery_logs[id].normalized_event
           payload == event.payload
       IN (/\ event.event_type \in {"issue_comment", "pull_request_review_comment"}
           /\ event.action = "created"
           /\ \/ Get(payload, "sender_type", "") \in {"Bot", "bot", " BOT "}
              \/ Get(payload, "sender_login", "") \in {"ci[bot]"}
              \/ Get(payload, "comment_body", "") \in {"", " "}
              \/ Get(payload, "comment_body", "") \in
                    {"<!-- fossmate:onboarding -->\n\nThanks", "see <!-- Fossmate:x"})
          => /\ RunCount(id) = 0
             /\ effects[id].comments = 0
             /\ effects[id].comment_errors = 0
             /\ \A w \in Workers :
                   workers[w].delivery_log_id = id
                      => workers[w].pc \notin {"record_run", "upsert_comment"}

\* a reply of the assistant came back as a created comment of a user, with
\* every flag on: its entry is done, without a run and without a reply
C31_Witness ==
    \E id \in DOMAIN delivery_logs :
       /\ Get(delivery_logs[id].normalized_event.payload, "comment_body", "")
             = "<!-- fossmate:onboarding -->\n\nThanks"
       /\ \A k \in FlagNames : default_feature_flags[k]
       /\ delivery_logs[id].status = "done"
       /\ RunCount(id) = 0
       /\ effects[id].comments = 0

\* C32: for a created comment that passes the guards (a user's non-empty
\* comment without a marker), a reply is attempted only if comment_reply_all
\* is set or the comment mentions the assistant handle; when a reply was
\* attempted the entry has exactly one run, an onboarding run for an
\* onboarding request and an assistant run otherwise, the entry is never
\* failed and it is done once its pass has ended.
C32_ReplyOnlyWhenAsked ==
    \A id \in DOMAIN delivery_logs :
       LET event == delivery_logs[id].normalized_event
           payload == event.payload
           body == Get(payload, "comment_body", "")
           replied == \/ effects[id].comments + effects[id].comment_errors > 0
                      \/ \E w \in Workers : /\ workers[w].delivery_log_id = id
                                            /\ workers[w].pc = "upsert_comment"
           kind == IF body = "can I work on this?"
                   THEN "issue_onboarding" ELSE "comment_assistant"
       IN (/\ event.event_type \in {"issue_comment", "pull_request_review_comment"}
           /\ event.action = "created"
           /\ Get(payload, "sender_type", "") = "User"
           /\ Get(payload, "sender_login", "") = "dev"
           /\ body \in {"can I work on this?", "@fossmate help", "hello"}
           /\ replied)
          => /\ \/ default_feature_flags["comment_reply_all"]
                \/ body = "@fossmate help"
             /\ RunCount(id) = 1
             /\ BagIn(Run(id, kind, "done"), review_runs)
             /\ delivery_logs[id].status # "failed"
             /\ (\A w \in Workers : workers[w].delivery_log_id # id)
                   => delivery_logs[id].status = "done"

\* with comment_reply_all off, a comment that mentions the assistant was
\* answered: one assistant run, one comment, the entry done
C32_Witness ==
    \E id \in DOMAIN delivery_logs :
       /\ Get(delivery_logs[id].normalized_event.payload, "comment_body", "")
             = "@fossmate help"
       /\ Get(delivery_logs[id].normalized_event.payload, "sender_type", "") = "User"
       /\ ~default_feature_flags["comment_reply_all"]
       /\ effects[id].comments = 1
       /\ RunCount(id) = 1
       /\ delivery_logs[id].status = "done"

\* C33: for a pull request (with repository and number) opened, or
\* synchronized with commit_trigger on, a section flag that is off blanks its own section of the stored result and
\* no other (the summary becomes the fixed text, the file summaries or the
\* suggestions become empty, the scores become zero), and a section whose
\* flag is on keeps what the review built; under every setting of these
\* flags an entry that is done has exactly one run, done, with one score card
\* and one result, and its comment was posted or attempted.  With
\* commit_trigger off a synchronize event leaves no run, no result and no
\* comment.
C33_SectionFlagsBlankOnly ==
    \A id \in DOMAIN delivery_logs :
       LET event == delivery_logs[id].normalized_event
           flags == default_feature_flags
           results == {r \in BagToSet(run_results) : r.delivery_log_id = id}
           skipped == event.action = "synchronize" /\ ~flags["commit_trigger"]
           ended == /\ delivery_logs[id].status = "done"
                    /\ \A w \in Workers : workers[w].delivery_log_id # id
       IN (/\ event.event_type = "pull_request"
           /\ event.action \in {"opened", "synchronize"}
           /\ event.repository_full_name = "o/r"
           /\ event.pr_number = "n1")
          => /\ \A r \in results :
                   /\ r.pr_summary = IF flags["pr_summary"]
                                     THEN "generated" ELSE "disabled"
                   /\ r.file_summaries = IF flags["file_summary"]
                                         THEN r.sources ELSE 0
                   /\ IF flags["review_suggestions"]
                      THEN r.suggestions \in {2, 5} ELSE r.suggestions = 0
                   /\ r.score_card = IF flags["scoring"] THEN "scored" ELSE "zero"
                   /\ CopiesIn(Finding(id), review_findings) = r.suggestions
             /\ skipped => /\ RunCount(id) = 0
                           /\ results = {}
                           /\ effects[id].comments + effects[id].comment_errors = 0
             /\ (ended /\ ~skipped)
                   => /\ RunCount(id) = 1
                      /\ BagIn(Run(id, "pull_request_review", "done"), review_runs)
                      /\ CopiesIn(ScoreCardModel(id), score_cards) = 1
                      /\ Cardinality(results) = 1
                      /\ effects[id].comments + effects[id].comment_errors = 1

\* with pr_summary and review_suggestions and scoring off and file_summary
\* on, the review of a listed pull request is done: its result has the fixed
\* summary text, the file summary, no suggestion and zero scores, the score
\* card is stored and the comment is posted
C33_Witness ==
    \E id \in DOMAIN delivery_logs :
       /\ ~default_feature_flags["pr_summary"]
       /\ ~default_feature_flags["review_suggestions"]
       /\ ~default_feature_flags["scoring"]
       /\ default_feature_flags["file_summary"]
       /\ delivery_logs[id].status = "done"
       /\ BagIn(Run(id, "pull_request_review", "done"), review_runs)
       /\ CopiesIn(ScoreCardModel(id), score_cards) = 1
       /\ effects[id].comments = 1
       /\ \E r \in BagToSet(run_results) :
             /\ r.delivery_log_id = id
             /\ r.pr_summary = "disabled"
             /\ r.file_summaries = 1
             /\ r.suggestions = 0
             /\ r.score_card = "zero"

\* C34 as stated: for an opened GitHub issue (with installation, repository
\* and number) the label call is made once, one issue_summary run is recorded
\* with status done and no other run, one comment is posted or attempted
\* after the run, and the entry is done once its pass has ended; a failure
\* of the label call or of the comment call never fails the entry.
C34_IssueOpenedEndsDone ==
    \A id \in DOMAIN delivery_logs :
       LET event == delivery_logs[id].normalized_event
           label_calls == effects[id].labels + effects[id].label_errors
           comment_calls == effects[id].comments + effects[id].comment_errors
           held == \E w \in Workers : workers[w].delivery_log_id = id
       IN (/\ event.platform = "github"
           /\ event.event_type = "issues"
           /\ event.action = "opened"
           /\ event.issue_number = "n2")
          => /\ delivery_logs[id].status # "failed"
             /\ \A w \in Workers :
                   workers[w].delivery_log_id = id
                      => workers[w].pc \notin {"fail_load", "mark_failed"}
             /\ label_calls <= 1 /\ comment_calls <= 1
             /\ RunCount(id) = CopiesIn(Run(id, "issue_summary", "done"), review_runs)
             /\ RunCount(id) = label_calls
             /\ comment_calls = 1 => RunCount(id) = 1
             /\ ~held /\ delivery_logs[id].status # "queued"
                   => /\ delivery_logs[id].status = "done"
                      /\ RunCount(id) = 1
                      /\ comment_calls = 1

\* C35: a call of _get_feature_flags for a tenant without a settings row
\* stores one row for the tenant, holding the process defaults, and returns
\* the defaults; a call for a tenant with a row changes no row and returns,
\* for each flag, the stored value if the row has one and the default if it
\* has none; a call without a tenant id returns the defaults and creates no
\* row.
C35_FlagsLazilyMaterialized ==
    \A n \in DOMAIN key_out :
       LET call == key_out[n]
           before == call.rows
           after == IF n = Len(key_out) THEN installation_settings
                    ELSE key_out[n + 1].rows
           mine == {i \in DOMAIN before :
                       before[i].installation_id = call.installation_id}
       IN IF call.installation_id = None
          THEN call.flags = default_feature_flags /\ after = before
          ELSE IF mine = {}
          THEN /\ call.flags = default_feature_flags
               /\ after = Append(before,
                                 [installation_id |-> call.installation_id,
                                  feature_flags_json |-> default_feature_flags])
          ELSE /\ after = before
               /\ \A i \in mine :
                     LET stored == before[i].feature_flags_json
                     IN /\ DOMAIN call.flags = FlagNames \cup DOMAIN stored
                        /\ \A k \in DOMAIN call.flags :
                              call.flags[k] = IF k \in DOMAIN stored
                                              THEN stored[k]
                                              ELSE default_feature_flags[k]

\* tenant i2 was referenced twice and tenant i1, whose stored row turns
\* commit_trigger off against the default, was read once: the first call for
\* i2 returned the defaults and created its row, the read of i1 returned
\* commit_trigger off
C35_Witness ==
    /\ Len(key_out) = 3
    /\ default_feature_flags["commit_trigger"]
    /\ key_out[1].installation_id = "i2" /\ key_out[1].rows = <<installation_settings[1]>>
    /\ key_out[2].installation_id = "i2"
    /\ key_out[2].flags = default_feature_flags
    /\ key_out[3].installation_id = "i1"
    /\ ~key_out[3].flags["commit_trigger"]
    /\ Len(installation_settings) = 2

\* C36: from the stop() call on, no ledger entry changes its status (the
\* entry of a job that was executing stays processing, it is never done or
\* failed), no run, finding, score card or comment is added, every worker
\* task has ended and stays ended (the handler of the abandoned job does not
\* go on), no job is taken from the queue (the pending jobs are never run)
\* and no job of an abandoned entry is put on the queue.
C36_StopAbandonsJob ==
    [][stopping' =>
          /\ \A id \in DOMAIN delivery_logs :
                delivery_logs'[id].status = delivery_logs[id].status
          /\ review_runs' = review_runs
          /\ artifacts' = artifacts
          /\ \A id \in DOMAIN effects :
                /\ effects'[id].comments = effects[id].comments
                /\ effects'[id].labels = effects[id].labels
                /\ effects'[id].check_runs = effects[id].check_runs
          /\ \A w \in Workers :
                /\ workers'[w].pc = "cancelled"
                /\ workers'[w].delivery_log_id = workers[w].delivery_log_id
          /\ Len(queue') >= Len(queue)
          /\ SubSeq(queue', 1, Len(queue)) = queue
          /\ \A w \in Workers : \A i \in DOMAIN queue' :
                queue'[i].delivery_log_id # workers[w].delivery_log_id]_vars

\* stop() was called while one worker was inside the review of the pull
\* request, its entry processing and its run stored as processing, and the
\* job of the issue was still on the queue: the entry is processing, the job
\* is on the queue, every task has ended
C36_Witness ==
    /\ stopping
    /\ queue # <<>>
    /\ \E w \in Workers :
          /\ workers[w].pc = "cancelled"
          /\ workers[w].route = "pull_request_review"
          /\ delivery_logs[workers[w].delivery_log_id].status = "processing"
          /\ BagIn(Run(workers[w].delivery_log_id, "pull_request_review", "processing"),
                   review_runs)

\* C37 as stated: the canonical type of a GitLab event is the lower-cased
\* name without the "hook" suffix and without underscores, for every
\* spelling of the name, so that a merge request event has its pr_number
\* filled and an issue or note event its issue_number, whether the name is
\* spelled with spaces or with underscores.
C37_EverySpellingCanonical ==
    (/\ key_in # <<>>
     /\ key_in[1].platform = "gitlab"
     /\ key_in[1].object_attributes = "full") =>
        LET event == key_out[1]
            name == key_in[1].event_type
        IN "raised" \notin DOMAIN event =>
              /\ name \in {"Merge Request Hook", "merge_request", "merge_request_hook"}
                    => /\ event.event_type \in {"mergerequest", "merge request"}
                       /\ event.pr_number = "n1"
                       /\ event.issue_number = None
              /\ name \in {"Issue Hook", "issue_hook"}
                    => /\ event.event_type = "issue"
                       /\ event.issue_number = "n1"
                       /\ event.pr_number = None
              /\ name = "Note Hook"
                    => /\ event.event_type = "note"
                       /\ event.issue_number = "n1"
              /\ name = "Push Hook" => event.event_type = "push"

\* C38 as stated: every webhook call that passed verification and parsing is
\* answered "accepted", also the later of two concurrent calls with the same
\* idempotency key; no caller is answered with a storage error.
C38_CallerSeesAccepted ==
    \A r \in responses : r.op = "webhook" => r.status = "accepted"

\* C39 as stated: when no webhook call is in flight, every stored raw payload
\* row (WebhookEvent) is referenced by at least one ledger entry.
C39_NoOrphanWebhookEvent ==
    requests = EmptyBag =>
       \A e \in DOMAIN webhook_events :
          \E id \in DOMAIN delivery_logs : delivery_logs[id].webhook_event_id = e

\* C40 as stated: when two workers process the first two events of a tenant
\* at the same time, the tenant has at most one settings row and neither
\* ledger entry is failed by the concurrent creation of that row.
C40_FirstReferenceRaceHarmless ==
    /\ \A i, j \in DOMAIN installation_settings :
          installation_settings[i].installation_id
             = installation_settings[j].installation_id => i = j
    /\ \A id \in DOMAIN delivery_logs :
          ~(/\ delivery_logs[id].status = "failed"
            /\ delivery_logs[id].error_message = "IntegrityError")

====
